---- MODULE Spec2Model ----
(***************************************************************************)
(* Model of the web scraper (class WebScraper): the fetch-with-fallback    *)
(* chain of src/web_scraper/src/scraper.py (specification Spec, and        *)
(* FairSpec with the fairness of sequential code) and, in the second half  *)
(* of the module, the content classifier and the report builder of both    *)
(* source files (specifications ScrapeSpec, RuleSpec and ListSpec), the    *)
(* choice of the content root (RootSpec), the HTTP adapter with a retry    *)
(* budget beyond the User-Agent pool (HttpSpec), get_page of the           *)
(* session-based scraper of src/src/scraper.py (SessionSpec) and the       *)
(* object's construction and teardown (LifeSpec).                          *)
(*                                                                         *)
(* Python binds a method name to its LAST definition in the class body, so *)
(* the live methods are _get_page_with_requests at lines 318-379,          *)
(* _get_page_with_scrapingbee at 381-443 and _get_page_with_playwright at  *)
(* 445-512; the earlier definitions (189-253, 255-316) are dead code.      *)
(***************************************************************************)
EXTENDS Integers, Sequences, FiniteSets, TLC

(***************************************************************************)
(* Bounds of the model                                                     *)
(***************************************************************************)
MaxRetriesBound == 4

(***************************************************************************)
(* Program constants                                                       *)
(***************************************************************************)
MinContentLen == 1000

None == "None"

\* get_page returning None, and an attempt from which no content arrived
NoDocument == [source |-> None]
NoContent  == [len |-> 0]

(***************************************************************************)
(* Text: a string is a sequence of one-character tokens.  The token        *)
(* "&#99;" is the HTML character reference of the letter c, "<" and ">"    *)
(* delimit markup.                                                         *)
(***************************************************************************)
UpperChars == <<"A", "C", "D", "E", "F", "H", "I", "L", "N", "O", "P", "R", "S", "T", "U">>
LowerChars == <<"a", "c", "d", "e", "f", "h", "i", "l", "n", "o", "p", "r", "s", "t", "u">>

\* str.lower() on one character
LowerChar(c) ==
    IF \E i \in 1..Len(UpperChars) : UpperChars[i] = c
    THEN LowerChars[CHOOSE i \in 1..Len(UpperChars) : UpperChars[i] = c]
    ELSE c

\* str.lower()
Lower(s) == [i \in 1..Len(s) |-> LowerChar(s[i])]

\* the blocklist ['captcha', 'access denied', 'cloudflare']
Blocklist ==
    { <<"c", "a", "p", "t", "c", "h", "a">>,
      <<"a", "c", "c", "e", "s", "s", " ", "d", "e", "n", "i", "e", "d">>,
      <<"c", "l", "o", "u", "d", "f", "l", "a", "r", "e">> }

\* term in s
Contains(s, term) ==
    \E i \in 1..(Len(s) - Len(term) + 1) : SubSeq(s, i, i + Len(term) - 1) = term

\* any(term in content.lower() for term in [...])
RawHasTerm(s) == \E term \in Blocklist : Contains(Lower(s), term)

\* html.parser decodes character references in text
Decode(tok) == IF tok = "&#99;" THEN "c" ELSE tok

\* BeautifulSoup(content, 'html.parser'): the text nodes of the document, in
\* order.  Tokens between "<" and ">" are markup and belong to no text node.
RECURSIVE ParseFrom(_, _, _, _)
ParseFrom(s, i, inTag, cur) ==
    IF i > Len(s)
    THEN IF cur = <<>> THEN <<>> ELSE <<cur>>
    ELSE IF inTag
         THEN ParseFrom(s, i + 1, s[i] # ">", cur)
         ELSE IF s[i] = "<"
              THEN (IF cur = <<>> THEN <<>> ELSE <<cur>>) \o ParseFrom(s, i + 1, TRUE, <<>>)
              ELSE ParseFrom(s, i + 1, FALSE, Append(cur, Decode(s[i])))

BeautifulSoup(s) == ParseFrom(s, 1, FALSE, <<>>)

\* soup.find(string=re.compile(r'(?i)captcha|access denied|cloudflare'))
SoupFindTerm(soup) ==
    \E n \in 1..Len(soup) : \E term \in Blocklist : Contains(Lower(soup[n]), term)

(***************************************************************************)
(* Candidate pages: len is len(content), text the part of the content      *)
(* that matters to the gate (the rest is filler without markup or terms).  *)
(***************************************************************************)
PlainText    == <<"<", "p", ">", "h", "i", "<", "/", "p", ">">>
CaptchaText  == <<"<", "p", ">", "C", "A", "P", "T", "C", "H", "A", "<", "/", "p", ">">>
DeniedText   == <<"A", "c", "c", "e", "s", "s", " ", "D", "e", "n", "i", "e", "d">>
AttrText     == <<"<", "c", "l", "o", "u", "d", "f", "l", "a", "r", "e", ">", "h", "i">>
EntityText   == <<"<", "p", ">", "&#99;", "a", "p", "t", "c", "h", "a", "<", "/", "p", ">">>

Contents ==
    { [len |-> MinContentLen - 1, text |-> PlainText],
      [len |-> MinContentLen,     text |-> PlainText],
      [len |-> 2 * MinContentLen, text |-> CaptchaText],
      [len |-> 2 * MinContentLen, text |-> DeniedText],
      [len |-> 2 * MinContentLen, text |-> AttrText],
      [len |-> 2 * MinContentLen, text |-> EntityText] }

\* the two blocklist scans of each candidate, evaluated once
RawScan == [c \in Contents |-> RawHasTerm(c.text)]
DocScan == [c \in Contents |-> SoupFindTerm(BeautifulSoup(c.text))]

(***************************************************************************)
(* What the environment can do to one attempt: nothing, a transport error  *)
(* (timeout, connection error), a non-2xx status, an error raised by the   *)
(* parser, an error raised while the debug artifact is written; in the     *)
(* browser adapter also a timeout of the wait for the main-content         *)
(* selector ("selector").                                                  *)
(***************************************************************************)
PlaywrightErrors  == {"none", "transport", "selector", "parse", "write"}
RequestsErrors    == {"none", "transport", "status", "parse", "write"}
ScrapingbeeErrors == {"none", "transport", "status", "parse", "write"}

\* the exception classes the error kinds raise
TransportExceptions == {"PlaywrightError", "RequestException", "HTTPError"}
OtherExceptions     == {"ParserError", "OSError"}

\* a selector wait without a handler of its own
SelectorCatches_Nothing(exc) == FALSE

\* the try around wait_for_selector: except Exception (line 464)
SelectorCatches(exc) == TRUE

\* The try body of one iteration of _get_page_with_playwright, lines 453-502:
\* "accept" returns the soup, "reject" is a continue, anything else is the
\* exception raised.  A timeout of the selector wait that its own handler
\* catches is logged and the body goes on.  The debug artifact is written
\* before the gate.
PlaywrightBody(c, err) ==
    IF err = "transport" THEN "PlaywrightError"
    ELSE IF err = "selector" /\ ~SelectorCatches("TimeoutError") THEN "TimeoutError"
    ELSE IF err = "write" THEN "OSError"
    ELSE IF c.len < MinContentLen THEN "reject"
    ELSE IF RawScan[c] THEN "reject"
    ELSE IF err = "parse" THEN "ParserError"
    ELSE IF DocScan[c] THEN "reject"
    ELSE "accept"

\* The try body of one iteration of _get_page_with_requests, lines 322-373
\* (raise_for_status raises HTTPError).  The debug artifact is written after
\* the gate.
RequestsBody(c, err) ==
    IF err = "transport" THEN "RequestException"
    ELSE IF err = "status" THEN "HTTPError"
    ELSE IF c.len < MinContentLen THEN "reject"
    ELSE IF RawScan[c] THEN "reject"
    ELSE IF err = "parse" THEN "ParserError"
    ELSE IF DocScan[c] THEN "reject"
    ELSE IF err = "write" THEN "OSError"
    ELSE "accept"

\* The try body of one iteration of _get_page_with_scrapingbee, lines 388-436:
\* length and raw blocklist checks only, then the debug write, then the parse.
ScrapingbeeBody(c, err) ==
    IF err = "transport" THEN "RequestException"
    ELSE IF err = "status" THEN "HTTPError"
    ELSE IF c.len < MinContentLen THEN "reject"
    ELSE IF RawScan[c] THEN "reject"
    ELSE IF err = "write" THEN "OSError"
    ELSE IF err = "parse" THEN "ParserError"
    ELSE "accept"

\* a browser adapter whose handler is as narrow as the HTTP adapter's
PlaywrightCatches_RequestsOnly(exc) == exc \in {"RequestException", "HTTPError"}

\* except Exception (line 504)
PlaywrightCatches(exc) == TRUE

\* except requests.exceptions.RequestException (line 375); HTTPError is a subclass
RequestsCatches(exc) == exc \in {"RequestException", "HTTPError"}

\* except Exception (line 438)
ScrapingbeeCatches(exc) == TRUE

\* the acceptance decision of each adapter on a candidate that arrived intact
AcceptPlaywright(c)  == PlaywrightBody(c, "none") = "accept"
AcceptRequests(c)    == RequestsBody(c, "none") = "accept"
AcceptScrapingbee(c) == ScrapingbeeBody(c, "none") = "accept"

\* what the history records of an attempt
Outcome(b) == IF b \in {"accept", "reject"} THEN b ELSE "raise"

\* the value an adapter returns for an accepted candidate: the parsed document
Soup(c, adapter) == [content |-> c, soup |-> BeautifulSoup(c.text), source |-> adapter]

\* Python truthiness of scrapingbee_api_key (None and '' are falsy)
Truthy(key) == key \notin {None, ""}

\* a backoff that starts at one second
RetryDelay_FromOne(k) == IF k > 0 THEN 2 ^ (k - 1) ELSE 0

\* delay slept at the start of attempt k of the HTTP and proxy adapters
\* (lines 328-331 and 391-394)
RetryDelay(k) == IF k > 0 THEN 2 ^ k ELSE 0

\* delay slept by the except branch of the browser adapter after attempt k failed (line 512)
PlaywrightBackoff(k) == 2 ^ k

(***************************************************************************)
(* The request headers: self.headers (lines 49-59) and self.user_agents    *)
(* (lines 62-68), a sequence here indexed from 1.  A User-Agent string is  *)
(* written as the platform and product tokens that tell it from the other  *)
(* four, the Accept value as its first media type.                         *)
(***************************************************************************)
BaseHeaders ==
    [h \in {"User-Agent", "Accept", "Accept-Language", "Accept-Encoding", "Connection",
            "Referer", "DNT", "Upgrade-Insecure-Requests", "Cache-Control"} |->
        CASE h = "User-Agent" ->
               "Windows Chrome/120"
          [] h = "Accept" -> "text/html"
          [] h = "Accept-Language" -> "en-US,en;q=0.9,hi;q=0.8"
          [] h = "Accept-Encoding" -> "gzip, deflate, br"
          [] h = "Connection" -> "keep-alive"
          [] h = "Referer" -> "https://www.google.com/"
          [] h = "DNT" -> "1"
          [] h = "Upgrade-Insecure-Requests" -> "1"
          [] h = "Cache-Control" -> "max-age=0"]

user_agents ==
    << "Windows Chrome/120", "Windows Firefox/119", "Macintosh Chrome/120",
       "Windows Edg/119", "Windows OPR/106" >>

\* a rotation over the first four agents only
UserAgentIndex_PoolOfFour(k) == k % (Len(user_agents) - 1)

\* attempt % len(self.user_agents) (line 323)
UserAgentIndex(k) == k % Len(user_agents)

\* current_ua of attempt k
current_ua(k) == user_agents[UserAgentIndex(k) + 1]

\* headers = self.headers.copy(); headers['User-Agent'] = current_ua (lines 324-325)
RequestHeaders(base, ua) == [base EXCEPT !["User-Agent"] = ua]

\* self.headers after lines 324-325: the copy is changed, self.headers is not
BaseAfterRequest(base, ua) == base

(***************************************************************************)
(* WebScraper.__init__: the browser is set up step by step inside one try; *)
(* a failure at any step sets use_playwright to False.                     *)
(***************************************************************************)
InitSteps == <<"start", "launch", "new_context", "add_init_script", "new_page", "set_extra_http_headers">>

StepIndex(step) == CHOOSE i \in 1..Len(InitSteps) : InitSteps[i] = step

InitFailures == {"none"} \cup {InitSteps[i] : i \in 1..Len(InitSteps)}

\* self.page after __init__(use_playwright=arg) whose browser set-up failed at fail
PageAfterInit(arg, fail) ==
    IF ~arg THEN None
    ELSE IF fail = "none" \/ StepIndex(fail) > StepIndex("new_page") THEN "page"
    ELSE None

\* self.use_playwright after __init__
UsePlaywrightAfterInit(arg, fail) == arg /\ fail = "none"

\* the browser resources in the order __init__ acquires them, and the step of
\* the try body that assigns each (lines 79, 80, 91, 144)
Resources == <<"playwright", "browser", "context", "page">>

AcquiredBy(r) ==
    CASE r = "playwright" -> "start"
      [] r = "browser"    -> "launch"
      [] r = "context"    -> "new_context"
      [] r = "page"       -> "new_page"

\* the attribute self.<r> after __init__(use_playwright=arg) whose browser
\* set-up failed at fail: the except branch (lines 156-158) resets none of them
HandleAfterInit(r, arg, fail) ==
    IF arg /\ (fail = "none" \/ StepIndex(fail) > StepIndex(AcquiredBy(r))) THEN r ELSE None

\* the exceptions a release call (close, stop) of the browser driver raises
ReleaseExceptions == {"PlaywrightError", "TimeoutError"}

\* a teardown whose handler catches timeouts only
DelCatches_TimeoutOnly(exc) == exc = "TimeoutError"

\* __del__, except Exception (line 899)
DelCatches(exc) == TRUE

VARIABLES
    use_playwright,        \* self.use_playwright
    use_scrapingbee,       \* self.use_scrapingbee
    scrapingbee_api_key,   \* self.scrapingbee_api_key
    page,                  \* self.page
    max_retries,           \* argument of the running get_page call
    pc,                    \* "idle", the adapter whose loop is running, or "done"
    caller,                \* who called the running adapter: "get_page" or "playwright"
    attempt,               \* loop variable of the running adapter
    slept,                 \* seconds of backoff slept since the adapter's last attempt
    content,               \* candidate content of the latest attempt
    error,                 \* exception raised by the latest attempt (None if none)
    result,                \* value returned by get_page
    raised,                \* an exception left get_page
    trace,                 \* history: one record per attempt of the latest adapter call
    calls,                 \* history: one summary per earlier adapter call of this get_page
    selector_timeout,      \* the selector wait of the latest attempt timed out
    headers,               \* self.headers
    sent                   \* the headers of the latest request of the HTTP adapter (None if none)

\* State of one scrape_example call and of the classifier it runs
VARIABLES
    signature,             \* the test of line 619 on the fetched page ("True", "False"; None: not evaluated)
    ruleset,               \* the classifier that runs: "basic", "extended" or "specialized"
    soup,                  \* the parsed page, where its containers are modelled
    main_content,          \* main_content: None, the body, or a container and its position
    at,                    \* position in scrape_example: "idle", "loop" or "returned"
    document,              \* the elements of the content root iterated so far, in document order
    current_section,       \* current_section
    verses,                \* content['verses']
    meanings,              \* content['meanings']
    paragraphs,            \* content['paragraphs']
    sections,              \* content['sections']: a dict, kept as its items in insertion order
    aggressive,            \* the loop of lines 853-862 ran
    results                \* the list scrape_example returned

\* State of the scraper object's life: __init__'s browser set-up and __del__
VARIABLES
    playwright,            \* self.playwright
    browser,               \* self.browser
    context,               \* self.context
    life,                  \* "init" (inside __init__'s try), "ready" or "deleted" (__del__ ran)
    step,                  \* index in InitSteps of the next step of the try body
    init_error,            \* the step of the try body that raised (None if none)
    open,                  \* environment: the browser resources that are open
    closing,               \* the resources whose release __del__ called, in call order
    cleanup_warning,       \* the exception logged by __del__'s handler (None if none)
    del_raised             \* an exception left __del__

\* State of one get_page call of the session-based scraper (src/src/scraper.py)
VARIABLES
    use_js,                \* argument use_js of the running get_page call
    session_pc,            \* "idle", "call" (a get_page call is about to run its try body) or "done"
    gets,                  \* history: one record per self.session.get call
    session_result,        \* value returned by the outermost get_page call
    session_raised         \* an exception left the outermost get_page call

fetch == <<use_playwright, use_scrapingbee, scrapingbee_api_key, page, max_retries,
           pc, caller, attempt, slept, content, error, result, raised, trace, calls,
           selector_timeout, headers, sent>>

located == <<soup, main_content>>

extraction == <<signature, ruleset, located, at, document, current_section, verses, meanings,
                paragraphs, sections, aggressive, results>>

lifecycle == <<playwright, browser, context, life, step, init_error, open, closing,
               cleanup_warning, del_raised>>

session == <<use_js, session_pc, gets, session_result, session_raised>>

vars == <<fetch, extraction, lifecycle, session>>

config == <<use_playwright, use_scrapingbee, scrapingbee_api_key, page, max_retries>>

\* no scrape_example call has started
NoScrape ==
    /\ signature = None
    /\ ruleset = None
    /\ soup = [tree |-> None]
    /\ main_content = [found |-> None]
    /\ at = "idle"
    /\ document = <<>>
    /\ current_section = None
    /\ verses = <<>>
    /\ meanings = <<>>
    /\ paragraphs = <<>>
    /\ sections = <<>>
    /\ aggressive = FALSE
    /\ results = <<>>

\* no get_page call has started
NoFetch ==
    /\ max_retries = 0
    /\ pc = "idle"
    /\ caller = None
    /\ attempt = 0
    /\ slept = 0
    /\ content = NoContent
    /\ error = None
    /\ result = NoDocument
    /\ raised = FALSE
    /\ trace = <<>>
    /\ calls = <<>>
    /\ selector_timeout = FALSE
    /\ headers = BaseHeaders
    /\ sent = None

\* no get_page call of the session-based scraper has started
NoSession ==
    /\ use_js = FALSE
    /\ session_pc = "idle"
    /\ gets = <<>>
    /\ session_result = NoDocument
    /\ session_raised = FALSE

\* the scraper is constructed and __del__ has not run
Constructed(arg, fail) ==
    /\ playwright = HandleAfterInit("playwright", arg, fail)
    /\ browser = HandleAfterInit("browser", arg, fail)
    /\ context = HandleAfterInit("context", arg, fail)
    /\ life = "ready"
    /\ step = IF arg /\ fail = "none" THEN Len(InitSteps) + 1 ELSE 0
    /\ init_error = IF arg /\ fail # "none" THEN fail ELSE None
    /\ open = {HandleAfterInit(Resources[i], arg, fail) : i \in 1..Len(Resources)} \ {None}
    /\ closing = <<>>
    /\ cleanup_warning = None
    /\ del_raised = FALSE

Init ==
    /\ \E arg \in BOOLEAN, fail \in InitFailures :
          /\ use_playwright = UsePlaywrightAfterInit(arg, fail)
          /\ page = PageAfterInit(arg, fail)
          /\ Constructed(arg, fail)
    /\ use_scrapingbee \in BOOLEAN
    /\ scrapingbee_api_key \in {None, "", "key"}
    /\ NoFetch
    /\ NoScrape
    /\ NoSession

Event(adapter, wait, outcome) ==
    [adapter |-> adapter, caller |-> caller, attempt |-> attempt, wait |-> wait, outcome |-> outcome]

\* what the history keeps of an adapter call once another call has begun
Summary(t) ==
    [adapter |-> t[1].adapter, caller |-> t[1].caller,
     attempts |-> Len(t), last |-> t[Len(t)].outcome]

\* the history after an attempt e: an attempt that ends the adapter call while
\* another adapter call follows (over) closes the call's record
Record(e, over) ==
    IF over
    THEN /\ calls' = Append(calls, Summary(Append(trace, e)))
         /\ trace' = <<>>
    ELSE /\ calls' = calls
         /\ trace' = Append(trace, e)

\* a loop that stops one attempt early
IsLast_OneEarly(k) == k >= max_retries - 2

\* a loop that runs one more iteration
IsLast_OneLate(k) == k = max_retries

\* the last iteration of for attempt in range(max_retries); the except
\* branches test the same condition (lines 377, 440, 506)
IsLast(k) == k = max_retries - 1

\* a dispatch that looks at the page handle only
UseBrowser_PageOnly == page # None

\* get_page, line 173: the browser adapter runs only if enabled and initialised
UseBrowser == use_playwright /\ page # None

\* get_page, line 184, and _get_page_with_scrapingbee, line 383
ProxyConfigured == use_scrapingbee /\ Truthy(scrapingbee_api_key)

\* get_page, lines 172-179.  scrape_example calls it with the default
\* max_retries = 3 (line 730); here max_retries ranges over 1..MaxRetriesBound.
GetPage(mr) ==
    /\ pc = "idle"
    /\ max_retries' = mr
    /\ pc' = IF UseBrowser THEN "playwright" ELSE "requests"
    /\ caller' = "get_page"
    /\ UNCHANGED <<use_playwright, use_scrapingbee, scrapingbee_api_key, page,
                   attempt, slept, content, error, result, raised, trace, calls,
                   selector_timeout, headers, sent, extraction, lifecycle, session>>

\* a fallthrough that does not look at the API key
AfterRequestsNone_IgnoresKey == IF use_scrapingbee THEN "scrapingbee" ELSE "done"

\* get_page, lines 180-187, once _get_page_with_requests called at line 179 returned None
AfterRequestsNone == IF ProxyConfigured THEN "scrapingbee" ELSE "done"

\* where control goes when _get_page_with_requests returns None to its caller:
\* through the except branch of the browser adapter (line 509) and get_page
\* line 175 to the call at line 179, or from line 179 onwards
RequestsNoneTarget == IF caller = "playwright" THEN "requests" ELSE AfterRequestsNone

\* one iteration of the for loop of _get_page_with_playwright, lines 451-512
PlaywrightAttempt(c, err) ==
    LET b == PlaywrightBody(c, err)
        o == Outcome(b)
        escape == o = "raise" /\ ~PlaywrightCatches(b)
        target == IF o = "accept" \/ escape THEN "done"
                  ELSE IF IsLast(attempt) THEN "requests"
                  ELSE "playwright"
    IN  /\ pc = "playwright"
        /\ Record(Event("playwright", slept, o), target = "requests")
        /\ content' = IF err = "transport" THEN NoContent ELSE c
        /\ error' = IF o = "raise" THEN b ELSE None
        /\ result' = IF o = "accept" THEN Soup(c, "playwright") ELSE result
        /\ raised' = escape
        /\ pc' = target
        /\ caller' = IF target = "requests" /\ o = "raise" THEN "playwright" ELSE "get_page"
        /\ attempt' = IF target = "done" THEN attempt
                      ELSE IF target = "requests" THEN 0
                      ELSE attempt + 1
        /\ slept' = IF target = "playwright" /\ o = "raise" THEN PlaywrightBackoff(attempt) ELSE 0
        /\ selector_timeout' = (err = "selector")
        /\ UNCHANGED <<config, headers, sent, extraction, lifecycle, session>>

\* one iteration of the for loop of _get_page_with_requests, lines 320-379
RequestsAttempt(c, err) ==
    LET b == RequestsBody(c, err)
        o == Outcome(b)
        escape == o = "raise" /\ ~RequestsCatches(b)
        target == IF o = "accept" \/ escape THEN "done"
                  ELSE IF IsLast(attempt) THEN RequestsNoneTarget
                  ELSE "requests"
        over == IsLast(attempt) /\ target # "done"
    IN  /\ pc = "requests"
        /\ Record(Event("requests", slept + RetryDelay(attempt), o), over)
        /\ content' = IF err \in {"transport", "status"} THEN NoContent ELSE c
        /\ error' = IF o = "raise" THEN b ELSE None
        /\ result' = IF o = "accept" THEN Soup(c, "requests") ELSE result
        /\ raised' = escape
        /\ pc' = target
        /\ caller' = IF over THEN "get_page" ELSE caller
        /\ attempt' = IF target = "done" THEN attempt
                      ELSE IF over THEN 0
                      ELSE attempt + 1
        /\ slept' = 0
        /\ sent' = RequestHeaders(headers, current_ua(attempt))
        /\ headers' = BaseAfterRequest(headers, current_ua(attempt))
        /\ selector_timeout' = FALSE
        /\ UNCHANGED <<config, extraction, lifecycle, session>>

\* one iteration of the for loop of _get_page_with_scrapingbee, lines 386-443
ScrapingbeeAttempt(c, err) ==
    LET b == ScrapingbeeBody(c, err)
        o == Outcome(b)
        escape == o = "raise" /\ ~ScrapingbeeCatches(b)
        target == IF o = "accept" \/ escape \/ IsLast(attempt) THEN "done" ELSE "scrapingbee"
    IN  /\ pc = "scrapingbee"
        /\ ProxyConfigured        \* lines 383-384: the adapter does nothing when not configured
        /\ Record(Event("scrapingbee", slept + RetryDelay(attempt), o), FALSE)
        /\ content' = IF err \in {"transport", "status"} THEN NoContent ELSE c
        /\ error' = IF o = "raise" THEN b ELSE None
        /\ result' = IF o = "accept" THEN Soup(c, "scrapingbee") ELSE result
        /\ raised' = escape
        /\ pc' = target
        /\ attempt' = IF target = "done" THEN attempt ELSE attempt + 1
        /\ slept' = 0
        /\ selector_timeout' = FALSE
        /\ UNCHANGED <<config, caller, headers, sent, extraction, lifecycle, session>>

Next ==
    \/ \E mr \in 1..MaxRetriesBound : GetPage(mr)
    \/ \E c \in Contents, err \in PlaywrightErrors : PlaywrightAttempt(c, err)
    \/ \E c \in Contents, err \in RequestsErrors : RequestsAttempt(c, err)
    \/ \E c \in Contents, err \in ScrapingbeeErrors : ScrapingbeeAttempt(c, err)

Spec == Init /\ [][Next]_vars

(***************************************************************************)
(* Reading the history                                                     *)
(***************************************************************************)
Adapters == {"playwright", "requests", "scrapingbee"}

\* the attempts of the latest adapter call
Idx == 1..Len(trace)

LastEvent == trace[Len(trace)]

\* the adapter calls of this get_page in order, the latest one included
History == calls \o (IF trace = <<>> THEN <<>> ELSE <<Summary(trace)>>)

Calls == 1..Len(History)

\* adapter a made at least one attempt
Attempted(a) == \E n \in Calls : History[n].adapter = a

\* the number of attempts adapter a made in this get_page
RECURSIVE AttemptsUpTo(_, _)
AttemptsUpTo(a, n) ==
    IF n = 0 THEN 0
    ELSE AttemptsUpTo(a, n - 1) + (IF History[n].adapter = a THEN History[n].attempts ELSE 0)

NumAttempts(a) == AttemptsUpTo(a, Len(History))

\* get_page is over: it returned result or an exception left it
Done == pc = "done"

Returned == Done /\ ~raised

\* a failed attempt: the gate rejected the candidate or the attempt raised
Failed(i) == trace[i].outcome \in {"reject", "raise"}

\* adapter call n made all its max_retries attempts and the last one failed too
Exhausted(n) ==
    /\ History[n].attempts = max_retries
    /\ History[n].last \in {"reject", "raise"}

\* adapter call n returned None to its caller
ReturnedNone(n) == Exhausted(n) /\ (n <= Len(calls) \/ Returned)

(***************************************************************************)
(* C1: every page returned by get_page, whichever adapter produced it, has *)
(* content length >= 1000 and no blocklist term in its raw content nor in  *)
(* any text of its parsed document.                                        *)
(* Violated: the proxy adapter returns a page whose parsed text holds a    *)
(* term that the raw content spells with a character reference.            *)
(***************************************************************************)
C1_ReturnedPageIsClean ==
    (Returned /\ result # NoDocument) =>
        /\ result.content.len >= MinContentLen
        /\ ~RawHasTerm(result.content.text)
        /\ ~SoupFindTerm(result.soup)

(***************************************************************************)
(* C2: adapter fallthrough.  When the browser adapter has run all its      *)
(* attempts without an accepted page, the HTTP adapter is attempted; when  *)
(* the HTTP adapter called by get_page has also returned without a page,   *)
(* the proxy adapter is attempted if and only if it is configured, and     *)
(* otherwise get_page returns None.                                        *)
(***************************************************************************)
\* the browser adapter made its last attempt and it was not accepted
BrowserExhausted == \E n \in Calls : History[n].adapter = "playwright" /\ Exhausted(n)

\* the call of the HTTP adapter at line 179 returned None
RequestsReturnedNone ==
    \E n \in Calls :
        /\ History[n].adapter = "requests"
        /\ History[n].caller = "get_page"
        /\ ReturnedNone(n)

C2_Fallthrough ==
    /\ BrowserExhausted => (pc = "requests" \/ Attempted("requests"))
    /\ RequestsReturnedNone =>
          /\ ProxyConfigured <=> (pc = "scrapingbee" \/ Attempted("scrapingbee"))
          /\ ~ProxyConfigured => (Returned /\ result = NoDocument)
    /\ (pc = "scrapingbee" \/ Attempted("scrapingbee")) => (ProxyConfigured /\ RequestsReturnedNone)

\* the whole chain ran: browser exhausted, HTTP exhausted, proxy attempted
C2_Witness ==
    /\ BrowserExhausted
    /\ RequestsReturnedNone
    /\ Attempted("scrapingbee")

(***************************************************************************)
(* C3: within one get_page(url, max_retries) call every adapter makes at   *)
(* most max_retries fetch attempts; in particular the HTTP adapter issues  *)
(* at most max_retries GET requests in total.                              *)
(* Violated: when the browser adapter raises on its final attempt it calls *)
(* the HTTP adapter itself (line 509), and get_page calls it again (179).  *)
(***************************************************************************)
C3_AtMostMaxRetriesAttempts ==
    \A a \in Adapters : NumAttempts(a) <= max_retries

(***************************************************************************)
(* C4: no exception escapes get_page, whatever fails inside an attempt.    *)
(* Violated: the HTTP adapter catches RequestException only, so an error   *)
(* raised by the parser or by the debug write leaves get_page.             *)
(***************************************************************************)
C4_NoExceptionEscapes == ~raised

(***************************************************************************)
(* C5: retry count.  In each adapter, a fetch that fails N times (raises a *)
(* transport error or is rejected by the gate) and then yields an          *)
(* acceptable page, N < max_retries, is attempted exactly N+1 times and    *)
(* that page is returned without any further attempt: the attempts of an   *)
(* adapter call are numbered 0, 1, ... and all but the latest failed, an   *)
(* adapter whose attempt failed in one of these two ways goes on to the    *)
(* next attempt while one is left, and an accepted page ends the call and  *)
(* is the value returned.                                                  *)
(***************************************************************************)
\* the latest attempt failed by a gate rejection or a transport error
LastFailedInTransportOrGate ==
    /\ trace # <<>>
    /\ \/ LastEvent.outcome = "reject"
       \/ LastEvent.outcome = "raise" /\ error \in TransportExceptions

C5_RetryCount ==
    /\ \A i \in Idx :
          /\ trace[i].attempt = i - 1
          /\ trace[i].attempt < max_retries
          /\ trace[i].adapter = trace[1].adapter
          /\ trace[i].caller = trace[1].caller
          /\ i < Len(trace) => Failed(i)
    /\ (LastFailedInTransportOrGate /\ LastEvent.attempt + 1 < max_retries) =>
          /\ pc = LastEvent.adapter
          /\ caller = LastEvent.caller
          /\ attempt = LastEvent.attempt + 1
    /\ \A i \in Idx : trace[i].outcome = "accept" =>
          /\ i = Len(trace)
          /\ Returned
          /\ result = Soup(content, trace[i].adapter)

\* two failures, then the third attempt is accepted and returned
C5_Witness ==
    /\ Returned
    /\ trace # <<>>
    /\ LastEvent.outcome = "accept"
    /\ LastEvent.attempt = 2

(***************************************************************************)
(* C6: backoff.  In each of the three adapters attempt k > 0 is preceded   *)
(* by a wait of exactly 2^k seconds, whether the previous attempt raised   *)
(* or was rejected by the gate; attempt 0 is preceded by no wait.          *)
(* Violated: the browser adapter sleeps only in its except branch, and     *)
(* then 2^(k-1) seconds; after a gate rejection it retries at once.        *)
(***************************************************************************)
C6_BackoffBeforeEveryRetry ==
    \A i \in Idx :
        trace[i].wait = (IF trace[i].attempt > 0 THEN 2 ^ trace[i].attempt ELSE 0)

(***************************************************************************)
(* C7: for a fetch that fails N times then succeeds (N < max_retries) the  *)
(* waits between successive attempts are the first N of 1, 2, 4, ...       *)
(* seconds (the first retry is preceded by 1 second).                      *)
(* Violated: the HTTP and the proxy adapter wait 2 seconds before the      *)
(* first retry.                                                            *)
(***************************************************************************)
\* the k-th retry (k in 1..N) of the adapter call whose attempt N is trace[i]
Retry(i, k) == trace[i - trace[i].attempt + k]

Rank(a) == CASE a = "playwright" -> 1 [] a = "requests" -> 2 [] a = "scrapingbee" -> 3

C8_FirstSuccessWins ==
    /\ \A m, n \in Calls : m < n => Rank(History[m].adapter) <= Rank(History[n].adapter)
    /\ \A n \in Calls : History[n].last = "accept" => n = Len(History)
    /\ \A i \in Idx : trace[i].outcome = "accept" =>
          /\ i = Len(trace)
          /\ Returned
          /\ result.source = trace[i].adapter
          /\ result.content = content
    /\ (Returned /\ result # NoDocument) => (trace # <<>> /\ LastEvent.outcome = "accept")
    /\ (pc = "playwright" \/ Attempted("playwright")) => (use_playwright /\ page # None)

\* the browser adapter failed and the HTTP adapter's page was returned
C8_Witness ==
    /\ Returned
    /\ result # NoDocument
    /\ result.source = "requests"
    /\ Attempted("playwright")

(***************************************************************************)
(* C9: the three adapters apply identical acceptance gating: on every      *)
(* candidate page they make the same accept/reject decision.               *)
(* Violated: the proxy adapter has no scan of the parsed document.         *)
(***************************************************************************)
C9_IdenticalGating ==
    content # NoContent =>
        /\ AcceptPlaywright(content) = AcceptRequests(content)
        /\ AcceptRequests(content) = AcceptScrapingbee(content)

(***************************************************************************)
(* C10: if the browser adapter raises on its final attempt, the HTTP       *)
(* adapter is attempted before get_page returns, and a page the HTTP       *)
(* adapter accepts is the result of get_page.                              *)
(***************************************************************************)
BrowserRaisedOnFinal(n) ==
    /\ History[n].adapter = "playwright"
    /\ History[n].attempts = max_retries
    /\ History[n].last = "raise"

C10_FallbackAfterFinalRaise ==
    \A n \in Calls : BrowserRaisedOnFinal(n) =>
        /\ IF n = Len(History)
           THEN pc = "requests" /\ attempt = 0
           ELSE History[n + 1].adapter = "requests"
        /\ \A m \in Calls : (m > n /\ History[m].adapter = "requests" /\ History[m].last = "accept") =>
              (Returned /\ result = Soup(content, "requests"))

\* the browser raised on its final attempt and the HTTP adapter's page is the result
C10_Witness ==
    /\ \E n \in Calls : BrowserRaisedOnFinal(n) /\ n < Len(History)
    /\ trace # <<>>
    /\ LastEvent.adapter = "requests"
    /\ LastEvent.outcome = "accept"
    /\ Returned
    /\ result = Soup(content, "requests")

(***************************************************************************)
(***************************************************************************)
(* Content classifier and report builder: extract_article_content and      *)
(* scrape_example of src/src/scraper.py (the "basic" ruleset) and the live *)
(* extract_article_content (609-714), _extract_shiva_tandav_content        *)
(* (788-886) and scrape_example (716-786) of src/web_scraper/src/scraper.py*)
(* (the "extended" and "specialized" rulesets).                            *)
(*                                                                         *)
(* Texts are strings.  A Devanagari code point is written as one ASCII     *)
(* character that occurs nowhere else in a text:                           *)
(*   U+0965 "="   U+0964 "|"   U+0950 "@"   U+0928 "1"   U+092E "2"        *)
(*   U+0903 "3"   U+0936 "4"   U+093F "5"   U+0935 "6"   U+0939 "7"        *)
(*   U+0930 "8"   U+093E "9"   U+0915 "0"   U+0943 "%"   U+0937 "&"        *)
(*   U+094D "+"   U+0923 "^"   U+0905 "$"   U+0925 "~"   U+092D "!"        *)
(*   U+0924 "<"   U+0902 ">"   U+0921 "?"                                  *)
(***************************************************************************)
(***************************************************************************)

\* Bound of the classifier model: the number of elements of a content root
MaxElements == 4

\* len(text) < 10, len(text) > 50, len(text) > 30 and full_text[:1000]
MinTextLen   == 10
VerseLen     == 50
ParagraphLen == 30
PreviewLen   == 1000

\* the characters re's \s and str.split() treat as whitespace
Whitespace == {" ", "\n", "\t"}

IsSpace(s, i) == SubSeq(s, i, i) \in Whitespace

\* elem.text.strip() is empty
Blank(s) == \A i \in 1..Len(s) : IsSpace(s, i)

\* the characters lo..hi of s with every run of whitespace after position
\* first replaced by one space and the whitespace up to first dropped
RECURSIVE CleanRange(_, _, _, _)
CleanRange(s, first, lo, hi) ==
    IF lo > hi THEN ""
    ELSE IF lo = hi
         THEN IF IsSpace(s, lo) THEN ""
              ELSE (IF lo > first /\ IsSpace(s, lo - 1) THEN " " ELSE "") \o SubSeq(s, lo, lo)
         ELSE LET mid == (lo + hi) \div 2
              IN  CleanRange(s, first, lo, mid) \o CleanRange(s, first, mid + 1, hi)

\* clean_text: ' '.join(re.sub(r'\s+', ' ', text).strip().split())
clean_text(text) ==
    IF Blank(text) THEN ""
    ELSE CleanRange(text,
                    CHOOSE i \in 1..Len(text) :
                        ~IsSpace(text, i) /\ \A j \in 1..(i - 1) : IsSpace(text, j),
                    1, Len(text))

UpperCase == "ABCDEFGHIJKLMNOPQRSTUVWXYZ"
LowerCase == "abcdefghijklmnopqrstuvwxyz"

\* str.lower() on the character at position i of s
LowerAt(s, i) ==
    LET c == SubSeq(s, i, i)
    IN  IF \E k \in 1..Len(UpperCase) : SubSeq(UpperCase, k, k) = c
        THEN LET k == CHOOSE k \in 1..Len(UpperCase) : SubSeq(UpperCase, k, k) = c
             IN  SubSeq(LowerCase, k, k)
        ELSE c

\* text.lower()
RECURSIVE LowerRange(_, _, _)
LowerRange(s, lo, hi) ==
    IF lo > hi THEN ""
    ELSE IF lo = hi THEN LowerAt(s, lo)
    ELSE LET mid == (lo + hi) \div 2
         IN  LowerRange(s, lo, mid) \o LowerRange(s, mid + 1, hi)

lower(text) == LowerRange(text, 1, Len(text))

\* devanagari_chars of the generic classifiers
devanagari_chars == {"=", "|", "@", "123", "456", "78", "892", "0%&+^"}

\* devanagari_chars of _extract_shiva_tandav_content
tandav_chars == devanagari_chars \cup {"<9>?6", "<9^+?6"}

\* the markers of the aggressive pass
aggressive_chars == {"=", "|", "@"}

\* the words that mark a meaning
meaning_words == {"meaning", "$8+~", "!9698+~", "explanation", "translation"}

\* any(m in text for m in markers)
AnyIn(markers, text) == \E m \in markers : Contains(text, m)

Headings == {"h1", "h2", "h3", "h4", "h5", "h6"}

\* the tag names find_all is given by each classifier
TextTags(rs) ==
    CASE rs = "basic"       -> Headings \cup {"p", "div", "span"}
      [] rs = "extended"    -> Headings \cup {"p", "div", "span", "pre", "blockquote"}
      [] rs = "specialized" -> Headings \cup {"p", "div"}

(***************************************************************************)
(* Candidate elements: a tag name and the element's text as the parser     *)
(* hands it over (before clean_text).                                      *)
(***************************************************************************)
RECURSIVE Rep(_, _)
Rep(s, n) == IF n = 0 THEN "" ELSE s \o Rep(s, n - 1)

River    == "the river runs quietly beside the temple"
Pilgrims == "pilgrims climb the stone steps before day"
Lamp     == "a lamp is lit at dusk in the inner shrines"
Glyphs   == "@ 123 456 | the matted hair of the dancer is wet with the streams of the river ="
Drum     == Rep("the drum sounds and the dancer turns ", 24) \o "the drum is silent again ="
Gloss    == "Translation: the dancer"
Padded   == "  the river   runs quietly\n beside the\ttemple \n"

Elements ==
    { [name |-> "h1",  text |-> "Intro"],
      [name |-> "h2",  text |-> "Introduction"],
      [name |-> "p",   text |-> River],
      [name |-> "p",   text |-> Pilgrims],
      [name |-> "p",   text |-> Lamp],
      [name |-> "p",   text |-> Glyphs],
      [name |-> "pre", text |-> Drum],
      [name |-> "p",   text |-> Gloss],
      [name |-> "div", text |-> Padded] }

\* Candidate elements for the rule chain: two headings, texts on which two
\* rules match, and a text on which none does
LongGloss  == "Meaning: the lord of the dance shakes the worlds with his drum"
GlyphGloss == "Meaning of 123 456"
Note       == "see also the notes"

RuleElements ==
    { [name |-> "h1", text |-> "Intro"],
      [name |-> "h2", text |-> "Introduction"],
      [name |-> "p",  text |-> LongGloss],
      [name |-> "p",  text |-> GlyphGloss],
      [name |-> "p",  text |-> Gloss],
      [name |-> "p",  text |-> River],
      [name |-> "p",  text |-> Note] }

\* Candidate elements of the pages whose containers are modelled: the child
\* of a container, and the container itself where it is a div
RootElements ==
    { [name |-> "p",   text |-> River],
      [name |-> "p",   text |-> Pilgrims],
      [name |-> "div", text |-> River],
      [name |-> "div", text |-> Pilgrims] }

\* Candidate elements for the three lists and the sections: headings that
\* carry the default section names, a long verse under a tag that only the
\* generic classifiers iterate, a verse of nine characters, and a text with
\* a meaning marker and a verse marker
ListElements ==
    { [name |-> "h2",   text |-> "General"],
      [name |-> "h1",   text |-> "Shiva Tandav Stotram"],
      [name |-> "p",    text |-> Gloss],
      [name |-> "p",    text |-> River],
      [name |-> "p",    text |-> Glyphs],
      [name |-> "span", text |-> Glyphs],
      [name |-> "p",    text |-> "@ 123 456"],
      [name |-> "p",    text |-> GlyphGloss] }

Candidates == Elements \cup RuleElements \cup RootElements \cup ListElements

Rulesets == {"basic", "extended", "specialized"}

\* text = self.clean_text(elem.get_text()), evaluated once per candidate
Text == [e \in Candidates |-> clean_text(e.text)]

\* the markers that make a text a verse
VerseMarkers(rs) == IF rs = "specialized" THEN tandav_chars ELSE devanagari_chars

\* a chain that tries the meaning rule first
Category_MeaningFirst(rs, text) ==
    IF AnyIn(meaning_words, lower(text)) THEN "meaning"
    ELSE IF AnyIn(VerseMarkers(rs), text) \/ Len(text) > VerseLen THEN "verse"
    ELSE IF Len(text) > ParagraphLen THEN "paragraph"
    ELSE "none"

\* a chain that tries the paragraph rule first
Category_ParagraphFirst(rs, text) ==
    IF Len(text) > ParagraphLen THEN "paragraph"
    ELSE IF AnyIn(VerseMarkers(rs), text) \/ Len(text) > VerseLen THEN "verse"
    ELSE IF AnyIn(meaning_words, lower(text)) THEN "meaning"
    ELSE "none"

\* the if / elif chain on one text
Category(rs, text) ==
    IF AnyIn(VerseMarkers(rs), text) \/ Len(text) > VerseLen THEN "verse"
    ELSE IF AnyIn(meaning_words, lower(text)) THEN "meaning"
    ELSE IF Len(text) > ParagraphLen THEN "paragraph"
    ELSE "none"

\* the chain's result for each candidate, evaluated once
Categories == [rs \in Rulesets |-> [e \in Candidates |-> Category(rs, Text[e])]]

\* a loop that skips empty elements only
Skipped_EmptyOnly(rs, e) == Blank(e.text)

\* the loop skips the element: no text, or (not in src/src/scraper.py) a short text
Skipped(rs, e) ==
    \/ Blank(e.text)
    \/ rs # "basic" /\ Len(Text[e]) < MinTextLen

\* what is appended to a section for a text of a category
Segment(rs, cat, text) ==
    IF rs = "basic" THEN text
    ELSE IF cat = "verse" THEN "VERSE: " \o text
    ELSE IF cat = "meaning" THEN "MEANING: " \o text
    ELSE text

(***************************************************************************)
(* content['sections'], a dict: its items in insertion order               *)
(***************************************************************************)
Keys(d) == {d[i].name : i \in 1..Len(d)}

\* d[k]
Items(d, k) == d[CHOOSE i \in 1..Len(d) : d[i].name = k].items

\* if k not in d: d[k] = []
WithSection(d, k) == IF k \in Keys(d) THEN d ELSE Append(d, [name |-> k, items |-> <<>>])

\* an append that reaches every section
WithItem_EverySection(d, k, item) ==
    [i \in 1..Len(d) |-> [d[i] EXCEPT !.items = Append(@, item)]]

\* if k in d: d[k].append(item)
WithItem(d, k, item) ==
    [i \in 1..Len(d) |-> IF d[i].name = k THEN [d[i] EXCEPT !.items = Append(@, item)] ELSE d[i]]

\* a membership test that never finds the text
In_Never(text, list) == FALSE

\* text in list
In(text, list) == \E i \in 1..Len(list) : list[i] = text

(***************************************************************************)
(* Rendering and the report                                                *)
(***************************************************************************)
\* for section, items in content['sections'].items(): the header line, then the items
RECURSIVE SectionParts(_)
SectionParts(d) ==
    IF d = <<>> THEN <<>>
    ELSE <<"\n--- " \o Head(d).name \o " ---">> \o Head(d).items \o SectionParts(Tail(d))

\* a rendering that writes the VERSES header whether or not there are verses
full_text_parts_AlwaysVerses(v, m, d) ==
    (<<"VERSES:">> \o v)
    \o (IF m # <<>> THEN <<"\nMEANINGS:">> \o m ELSE <<>>)
    \o (IF d # <<>> THEN <<"\nSECTIONS:">> \o SectionParts(d) ELSE <<>>)

\* full_text_parts
full_text_parts(v, m, d) ==
    (IF v # <<>> THEN <<"VERSES:">> \o v ELSE <<>>)
    \o (IF m # <<>> THEN <<"\nMEANINGS:">> \o m ELSE <<>>)
    \o (IF d # <<>> THEN <<"\nSECTIONS:">> \o SectionParts(d) ELSE <<>>)

\* '\n\n'.join(parts)
RECURSIVE Join(_)
Join(parts) ==
    IF parts = <<>> THEN ""
    ELSE IF Len(parts) = 1 THEN parts[1]
    ELSE parts[1] \o "\n\n" \o Join(Tail(parts))

\* the dict the classifier builds
Content(v, m, p, d) == [verses |-> v, meanings |-> m, paragraphs |-> p, sections |-> d]

\* content['full_text'] = '\n\n'.join(full_text_parts)
WithFullText(c) ==
    c @@ [full_text |-> Join(full_text_parts(c.verses, c.meanings, c.sections))]

\* content.get(key, default)
Get(c, key, default) == IF key \in DOMAIN c THEN c[key] ELSE default

\* a preview that marks a text of exactly 1000 characters as cut
content_preview_MarksAtLimit(full_text) ==
    SubSeq(full_text, 1, IF Len(full_text) < PreviewLen THEN Len(full_text) ELSE PreviewLen)
    \o (IF Len(full_text) >= PreviewLen THEN "..." ELSE "")

\* full_text[:1000] + ('...' if len(full_text) > 1000 else '')
content_preview(full_text) ==
    SubSeq(full_text, 1, IF Len(full_text) < PreviewLen THEN Len(full_text) ELSE PreviewLen)
    \o (IF Len(full_text) > PreviewLen THEN "..." ELSE "")

\* len(soup.find_all(name))
RECURSIVE NumTags(_, _)
NumTags(doc, name) ==
    IF doc = <<>> THEN 0
    ELSE (IF Head(doc).name = name THEN 1 ELSE 0) + NumTags(Tail(doc), name)

\* counts that take the number of sections for the number of verses
Counts_SectionsForVerses(c, doc) ==
    [num_links      |-> NumTags(doc, "a"),
     num_images     |-> NumTags(doc, "img"),
     num_paragraphs |-> Len(Get(c, "paragraphs", <<>>)),
     num_verses     |-> Len(Get(c, "sections", <<>>)),
     num_sections   |-> Len(Get(c, "sections", <<>>)),
     content_preview |-> content_preview(Get(c, "full_text", ""))]

\* the dict of the second page_data.update
Counts(c, doc) ==
    [num_links      |-> NumTags(doc, "a"),
     num_images     |-> NumTags(doc, "img"),
     num_paragraphs |-> Len(Get(c, "paragraphs", <<>>)),
     num_verses     |-> Len(Get(c, "verses", <<>>)),
     num_sections   |-> Len(Get(c, "sections", <<>>)),
     content_preview |-> content_preview(Get(c, "full_text", ""))]

\* page_data as scrape_example returns it for a page without a title and
\* without a description: the two page_data.update calls on the first dict
PageData(c, doc) ==
    [url |-> "url", title |-> "No title found", scraped_at |-> "now"] @@ c @@ Counts(c, doc)

(***************************************************************************)
(* scrape_example                                                          *)
(***************************************************************************)
\* line 619: the page carries the signature of the specialized template.
\* src/src/scraper.py has one classifier only.
Dispatch(program, matches) ==
    IF program = "src" THEN "basic"
    ELSE IF matches THEN "specialized"
    ELSE "extended"

\* a sections dict that starts with an entry for the default section
NoSections_DefaultEntered == <<[name |-> "General", items |-> <<>>]>>

\* 'sections': {} of the content dict the classifier starts from
NoSections == <<>>

\* current_section before the loop
InitialSection(rs) == IF rs = "specialized" THEN "Shiva Tandav Stotram" ELSE "General"

\* an attribution that does not ask whether the text was new to its list
Attributed_EvenIfKnown(new, d, k) == k \in Keys(d)

\* the section of key k receives the segment of a text: the text was appended
\* to its list and (if current_section in content['sections']) k is a key
Attributed(new, d, k) == new /\ k \in Keys(d)

\* what get_page hands to scrape_example: a document, None, or an exception
\* that left it
Fetched == {"soup", "None", "raise"}

\* scrape_example up to the classifier's loop: get_page, the debug file,
\* the title, the dispatch on the template's signature
ScrapeExample(program, matches, fetched, written) ==
    /\ at = "idle"
    /\ IF fetched = "soup" /\ written
       THEN /\ signature' = IF program = "src" THEN None ELSE IF matches THEN "True" ELSE "False"
            /\ ruleset' = Dispatch(program, matches)
            /\ current_section' = InitialSection(Dispatch(program, matches))
            /\ sections' = NoSections
            /\ at' = "loop"
            /\ results' = results
       ELSE /\ results' = <<>>
            /\ at' = "returned"
            /\ UNCHANGED <<signature, ruleset, current_section, sections>>
    /\ UNCHANGED <<located, document, verses, meanings, paragraphs, aggressive, fetch,
                   lifecycle, session>>

\* one iteration of the classifier's for loop over one element
ClassifyElement(e) ==
    LET text == Text[e]
        cat  == Categories[ruleset][e]
        list == CASE cat = "verse" -> verses
                  [] cat = "meaning" -> meanings
                  [] OTHER -> paragraphs
        new  == cat # "none" /\ ~In(text, list)
    IN  /\ at = "loop"
        /\ Len(document) < MaxElements
        /\ document' = Append(document, e)
        /\ IF e.name \notin TextTags(ruleset) \/ Skipped(ruleset, e)
           THEN UNCHANGED <<current_section, verses, meanings, paragraphs, sections>>
           ELSE IF e.name \in Headings
           THEN /\ current_section' = text
                /\ sections' = WithSection(sections, text)
                /\ UNCHANGED <<verses, meanings, paragraphs>>
           ELSE /\ verses' = IF new /\ cat = "verse" THEN Append(verses, text) ELSE verses
                /\ meanings' = IF new /\ cat = "meaning" THEN Append(meanings, text) ELSE meanings
                /\ paragraphs' = IF new /\ cat = "paragraph" THEN Append(paragraphs, text)
                                 ELSE paragraphs
                /\ sections' = IF Attributed(new, sections, current_section)
                               THEN WithItem(sections, current_section, Segment(ruleset, cat, text))
                               ELSE sections
                /\ UNCHANGED current_section
        /\ UNCHANGED <<signature, ruleset, located, at, aggressive, results, fetch, lifecycle, session>>

\* an unexpected exception inside the classifier.  The generic classifiers do
\* not catch it: it reaches the except clause of scrape_example and the
\* classifier's content is lost.  The
\* specialized one catches it at line 883 and returns content as it is then,
\* before line 881 has set content['full_text'].
ClassifierRaises ==
    /\ at = "loop"
    /\ at' = "returned"
    /\ IF ruleset = "specialized"
       THEN /\ results' = <<PageData(Content(verses, meanings, paragraphs, sections), document)>>
            /\ UNCHANGED <<document, current_section, verses, meanings, paragraphs, sections>>
       ELSE /\ results' = <<>>
            /\ document' = <<>>
            /\ current_section' = None
            /\ verses' = <<>>
            /\ meanings' = <<>>
            /\ paragraphs' = <<>>
            /\ sections' = <<>>
    /\ UNCHANGED <<signature, ruleset, located, aggressive, fetch, lifecycle, session>>

\* lines 853-862 for the elements doc of the content root, from the verses v
\* and sections d the first loop left
RECURSIVE Aggressive(_, _, _, _)
Aggressive(doc, v, d, k) ==
    IF doc = <<>> THEN [verses |-> v, sections |-> d]
    ELSE LET e    == Head(doc)
             text == Text[e]
             hit  == /\ ~Blank(e.text)
                     /\ Len(text) > VerseLen
                     /\ AnyIn(aggressive_chars, text)
                     /\ ~In(text, v)
         IN  Aggressive(Tail(doc),
                        IF hit THEN Append(v, text) ELSE v,
                        IF Attributed(hit, d, k) THEN WithItem(d, k, "VERSE: " \o text) ELSE d,
                        k)

\* an aggressive pass that runs whatever the first loop found
RunsAggressive_Always(rs, v) == rs = "specialized"

\* if not content['verses'] (line 850), in _extract_shiva_tandav_content only
RunsAggressive(rs, v) == rs = "specialized" /\ v = <<>>

\* the end of the loop: the aggressive pass (specialized, no verse found),
\* full_text, and the rest of scrape_example up to return [page_data]
ReturnReport ==
    LET again == RunsAggressive(ruleset, verses)
        found == IF again THEN Aggressive(document, verses, sections, current_section)
                 ELSE [verses |-> verses, sections |-> sections]
        c     == WithFullText(Content(found.verses, meanings, paragraphs, found.sections))
    IN  /\ at = "loop"
        /\ verses' = found.verses
        /\ sections' = found.sections
        /\ results' = <<PageData(c, document)>>
        /\ at' = "returned"
        /\ aggressive' = again
        /\ UNCHANGED <<signature, ruleset, located, document, current_section, meanings, paragraphs,
                       fetch, lifecycle, session>>

\* a scraper on which scrape_example is called once
ScrapeInit ==
    /\ Init
    /\ ~use_playwright
    /\ page = None
    /\ ~use_scrapingbee
    /\ scrapingbee_api_key = None
    /\ init_error = None

ScrapeNext ==
    \/ \E program \in {"src", "web_scraper"}, matches \in BOOLEAN, fetched \in Fetched,
          written \in BOOLEAN : ScrapeExample(program, matches, fetched, written)
    \/ \E e \in Elements : ClassifyElement(e)
    \/ ClassifierRaises
    \/ ReturnReport

ScrapeSpec == ScrapeInit /\ [][ScrapeNext]_vars

(***************************************************************************)
(* Reading the classifier's state                                          *)
(***************************************************************************)
Positions == 1..Len(document)

\* the normalized texts of the elements iterated so far
Seen == {Text[document[k]] : k \in Positions}

\* the position of the first element whose normalized text is text
FirstAt(text) ==
    CHOOSE k \in Positions :
        /\ Text[document[k]] = text
        /\ \A j \in 1..(k - 1) : Text[document[j]] # text

NoDuplicates(list) == \A i, j \in 1..Len(list) : list[i] = list[j] => i = j

\* the texts of list are texts of the document, listed as they first occur in it
InOrderOfFirstOccurrence(list) ==
    /\ \A i \in 1..Len(list) : list[i] \in Seen
    /\ \A i, j \in 1..Len(list) : i < j => FirstAt(list[i]) < FirstAt(list[j])

Reported == at = "returned" /\ results # <<>>

(***************************************************************************)
(* C11: whatever elements have been classified, none of verses, meanings   *)
(* and paragraphs holds the same normalized text twice, and each of the    *)
(* three lists holds its texts in the order of their first occurrence in   *)
(* the document.                                                           *)
(***************************************************************************)
C11_UniqueInOrder ==
    \A list \in {verses, meanings, paragraphs} :
        NoDuplicates(list) /\ InOrderOfFirstOccurrence(list)

\* a text was met twice, the second time written with other whitespace and
\* after another paragraph, and the list holds the two paragraphs once each
C11_Witness ==
    /\ Reported
    /\ ruleset = "extended"
    /\ Len(paragraphs) = 2
    /\ \E i, j, k \in Positions :
          /\ i < j /\ j < k
          /\ document[i] # document[k]
          /\ Text[document[i]] = Text[document[k]]
          /\ paragraphs = <<Text[document[i]], Text[document[j]]>>

\* the segments of all sections, section after section
RECURSIVE Segments(_)
Segments(d) == IF d = <<>> THEN <<>> ELSE Head(d).items \o Segments(Tail(d))

ListOf(cat) ==
    CASE cat = "verse" -> verses
      [] cat = "meaning" -> meanings
      [] cat = "paragraph" -> paragraphs

\* seg is what a section receives for a text that is in its category list
SegmentOfListed(seg) ==
    \E cat \in {"verse", "meaning", "paragraph"} :
        \E i \in 1..Len(ListOf(cat)) : seg = Segment(ruleset, cat, ListOf(cat)[i])

(***************************************************************************)
(* C12: a section receives a segment only for a text that was newly        *)
(* appended to its category list.  So every segment of every section is    *)
(* the segment of a listed text, and no segment occurs twice, neither in   *)
(* one section nor in two: a text met again, under the same heading or     *)
(* under another one, adds nothing to any section.                         *)
(***************************************************************************)
C12_SectionsGetOnlyNewTexts ==
    /\ NoDuplicates(Segments(sections))
    /\ \A n \in 1..Len(Segments(sections)) : SegmentOfListed(Segments(sections)[n])

\* a paragraph under one heading, the same paragraph (written with other
\* whitespace) under a second heading: the second section stays empty
C12_Witness ==
    /\ Reported
    /\ Len(document) = 4
    /\ document[1].name \in Headings
    /\ document[3].name \in Headings
    /\ document[2] # document[4]
    /\ Text[document[2]] = Text[document[4]]
    /\ sections = <<[name |-> Text[document[1]], items |-> <<Text[document[2]]>>],
                    [name |-> Text[document[3]], items |-> <<>>]>>

\* the classifier reads element e as content (it is no heading, its tag is
\* one the loop iterates, its text is not skipped) of category cat
ReadAs(e, cat) ==
    /\ e.name \in TextTags(ruleset) \ Headings
    /\ ~Skipped(ruleset, e)
    /\ Categories[ruleset][e] = cat

\* the document so far is a heading with some text, then three different
\* elements of paragraph length
HeadingThenThreeParagraphs ==
    /\ Len(document) = 4
    /\ document[1].name \in Headings
    /\ ~Blank(document[1].text)
    /\ \A i \in 2..4 : ReadAs(document[i], "paragraph")
    /\ \A i, j \in 2..4 : Text[document[i]] = Text[document[j]] => i = j

(***************************************************************************)
(* C13: a heading with any non-empty text, short ones included, followed   *)
(* by three elements of paragraph length gives a sections entry that maps  *)
(* the heading's text to exactly those three texts, in document order.     *)
(***************************************************************************)
C13_HeadingCollectsParagraphs ==
    ruleset \in Rulesets /\ HeadingThenThreeParagraphs =>
        /\ Text[document[1]] \in Keys(sections)
        /\ Items(sections, Text[document[1]])
               = <<Text[document[2]], Text[document[3]], Text[document[4]]>>

\* the document is <h1>Intro</h1>, a p of 80 characters with a sacred glyph
\* and a p of 40 plain characters
IntroFixture ==
    /\ Len(document) = 3
    /\ document[1].name = "h1" /\ Text[document[1]] = "Intro"
    /\ document[2].name = "p"
    /\ Len(Text[document[2]]) = 80
    /\ AnyIn(devanagari_chars, Text[document[2]])
    /\ document[3].name = "p"
    /\ Len(Text[document[3]]) = 40
    /\ ~AnyIn(devanagari_chars, Text[document[3]])
    /\ ~AnyIn(meaning_words, lower(Text[document[3]]))

(***************************************************************************)
(* C14: for the document <h1>Intro</h1>, a p of 80 characters with a       *)
(* sacred glyph, a p of 40 plain characters, the report has num_verses = 1,*)
(* num_paragraphs = 1 and num_sections = 1, and the section "Intro" holds  *)
(* the two texts (as the segments of a verse and of a paragraph) in        *)
(* document order.                                                         *)
(***************************************************************************)
C14_IntroFixtureReport ==
    Reported /\ IntroFixture =>
        /\ results[1].num_verses = 1
        /\ results[1].num_paragraphs = 1
        /\ results[1].num_sections = 1
        /\ "Intro" \in Keys(results[1].sections)
        /\ Items(results[1].sections, "Intro")
               = <<Segment(ruleset, "verse", Text[document[2]]),
                   Segment(ruleset, "paragraph", Text[document[3]])>>

NoHeadings == \A k \in Positions : document[k].name \notin Headings

\* the rule the chain matches for each candidate's text
Matches == [rs \in Rulesets |-> [e \in Elements |-> Category(rs, Text[e])]]

\* element e is one the loop iterates and does not skip, it is no heading,
\* and its text matches the rule of category cat
Classifiable(e, cat) ==
    /\ e.name \in TextTags(ruleset) \ Headings
    /\ ~Skipped(ruleset, e)
    /\ Matches[ruleset][e] = cat

(***************************************************************************)
(* C15: as long as the page has shown no heading element the sections      *)
(* mapping is empty (the default section is never entered into it), while  *)
(* the text of every classifiable element is in the flat list of its       *)
(* category; a report built then has no sections.                          *)
(***************************************************************************)
C15_NoHeadingNoSection ==
    ruleset \in Rulesets /\ NoHeadings =>
        /\ sections = <<>>
        /\ \A k \in Positions : \A cat \in {"verse", "meaning", "paragraph"} :
               Classifiable(document[k], cat) => In(Text[document[k]], ListOf(cat))
        /\ Reported => results[1].sections = <<>> /\ results[1].num_sections = 0

\* a reported page without headings whose elements filled all three lists
C15_Witness ==
    /\ Reported
    /\ ruleset = "extended"
    /\ NoHeadings
    /\ Len(document) = 3
    /\ verses # <<>> /\ meanings # <<>> /\ paragraphs # <<>>
    /\ results[1].sections = <<>>

\* a header line followed by the items of list; nothing for an empty list
Block(header, list) == IF list = <<>> THEN <<>> ELSE <<header>> \o list

\* for every section, in the order of d: its header line, then its segments
RECURSIVE SectionBlocks(_)
SectionBlocks(d) ==
    IF d = <<>> THEN <<>>
    ELSE <<"\n--- " \o d[1].name \o " ---">> \o d[1].items \o SectionBlocks(Tail(d))

\* the report carries a full_text
Rendered == Reported /\ "full_text" \in DOMAIN results[1]

(***************************************************************************)
(* C16: full_text is, joined by blank lines and in this order, the VERSES  *)
(* block (header and verses in discovery order) iff there are verses, the  *)
(* MEANINGS block iff there are meanings, and the SECTIONS block (header,  *)
(* then every section in first-seen order with its header line and its     *)
(* segments) iff there is a section; with paragraphs only and no section   *)
(* it is the empty string.                                                 *)
(***************************************************************************)
C16_FullTextBlocks ==
    Rendered =>
        LET r == results[1]
        IN  /\ r.full_text =
                  Join(Block("VERSES:", r.verses)
                       \o Block("\nMEANINGS:", r.meanings)
                       \o (IF r.sections = <<>> THEN <<>>
                           ELSE <<"\nSECTIONS:">> \o SectionBlocks(r.sections)))
            /\ \A i, j \in 1..Len(r.sections) :
                   i < j => FirstAt(r.sections[i].name) < FirstAt(r.sections[j].name)
            /\ r.verses = <<>> /\ r.meanings = <<>> /\ r.sections = <<>> => r.full_text = ""

\* a report whose full_text has the three blocks
C16_Witness ==
    /\ Rendered
    /\ ruleset = "extended"
    /\ Len(document) = 3
    /\ results[1].verses # <<>>
    /\ results[1].meanings # <<>>
    /\ Len(results[1].sections) = 1
    /\ Len(results[1].sections[1].items) = 2

(***************************************************************************)
(* C17: content_preview equals full_text when full_text has at most 1000   *)
(* characters, and is the first 1000 characters of full_text followed by   *)
(* the ellipsis marker "..." when it has 1001 or more; it never has more   *)
(* than 1000 characters plus the marker's three.                           *)
(***************************************************************************)
C17_PreviewTruncation ==
    Rendered =>
        LET full    == results[1].full_text
            preview == results[1].content_preview
        IN  /\ Len(full) <= 1000 => preview = full
            /\ Len(full) >= 1001 => preview = SubSeq(full, 1, 1000) \o "..."
            /\ Len(preview) <= 1000 + Len("...")

\* a full_text of exactly 1001 characters, cut to 1000 and marked
C17_Witness ==
    /\ Rendered
    /\ Len(results[1].full_text) = 1001
    /\ Len(results[1].content_preview) = 1003

\* a full_text of exactly 1000 characters, kept whole and unmarked
C17_AtLimit ==
    /\ Rendered
    /\ Len(results[1].full_text) = 1000
    /\ results[1].content_preview = results[1].full_text

(***************************************************************************)
(* C18: in every report, whether the generic or the specialized classifier *)
(* produced its content, num_verses is the length of verses,               *)
(* num_paragraphs the length of paragraphs and num_sections the number of  *)
(* sections carried by the same report.                                    *)
(***************************************************************************)
C18_CountsAreLengths ==
    Reported =>
        /\ results[1].num_verses = Len(results[1].verses)
        /\ results[1].num_paragraphs = Len(results[1].paragraphs)
        /\ results[1].num_sections = Len(results[1].sections)
        /\ results[1].verses = verses
        /\ results[1].paragraphs = paragraphs
        /\ results[1].sections = sections

\* a specialized-template report with different numbers of verses,
\* paragraphs and sections, the verses found by the aggressive pass
C18_Witness ==
    /\ Rendered
    /\ ruleset = "specialized"
    /\ \E k \in Positions : document[k].name \notin TextTags(ruleset)
                             /\ In(Text[document[k]], verses)
    /\ results[1].num_verses = 1
    /\ results[1].num_paragraphs = 2
    /\ results[1].num_sections = 1

\* the classification of a specialized-template page failed: it did not run
\* to the end of the classifier, and scrape_example has returned
SpecializedFailed == ruleset = "specialized" /\ at = "returned" /\ ~Rendered

\* the fields of a PageReport that every report has
PageReportFields ==
    {"url", "title", "scraped_at", "verses", "meanings", "paragraphs", "sections",
     "full_text", "num_links", "num_images", "num_paragraphs", "num_verses",
     "num_sections", "content_preview"}

(***************************************************************************)
(* C19: when the classification of a specialized-template page fails with  *)
(* an unexpected error, the error does not propagate (a report is          *)
(* returned) and the content has the empty shape: verses, meanings,        *)
(* paragraphs and sections empty, full_text present and empty, so that the *)
(* report carries every PageReport field.                                  *)
(***************************************************************************)
C19_FailureGivesEmptyShape ==
    SpecializedFailed =>
        /\ Reported
        /\ results[1].verses = <<>>
        /\ results[1].meanings = <<>>
        /\ results[1].paragraphs = <<>>
        /\ results[1].sections = <<>>
        /\ PageReportFields \subseteq DOMAIN results[1]
        /\ results[1].full_text = ""

\* a report with every field a PageReport always has
Complete(r) == PageReportFields \subseteq DOMAIN r

(***************************************************************************)
(* C20: scrape_example always returns, and what it returns is never a      *)
(* partial record: the empty list when get_page gave no document or a step *)
(* failed, otherwise a list that holds exactly one complete report.        *)
(***************************************************************************)
C20_EmptyOrOneCompleteReport ==
    at = "returned" =>
        \/ results = <<>>
        \/ Len(results) = 1 /\ Complete(results[1]) /\ ~SpecializedFailed

(***************************************************************************)
(* Specification RuleSpec: scrape_example on pages made of the candidates  *)
(* for the rule chain.                                                     *)
(***************************************************************************)
RuleNext ==
    \/ \E program \in {"src", "web_scraper"}, matches \in BOOLEAN, fetched \in Fetched,
          written \in BOOLEAN : ScrapeExample(program, matches, fetched, written)
    \/ \E e \in RuleElements : ClassifyElement(e)
    \/ ClassifierRaises
    \/ ReturnReport

RuleSpec == ScrapeInit /\ [][RuleNext]_vars

\* for each candidate: whether it reaches the rule chain (it is of a tag the
\* classifier iterates, is not a heading and is not skipped for its length)
\* and which of the three rules' conditions its text meets; evaluated once
Rules ==
    [rs \in Rulesets |-> [e \in Candidates |->
        [chained   |-> /\ e.name \in TextTags(rs) \ Headings
                       /\ ~Blank(e.text)
                       /\ rs = "basic" \/ Len(Text[e]) >= MinTextLen,
         verse     |-> AnyIn(VerseMarkers(rs), Text[e]) \/ Len(Text[e]) > VerseLen,
         meaning   |-> AnyIn(meaning_words, lower(Text[e])),
         paragraph |-> Len(Text[e]) > ParagraphLen]]]

\* text is in the section segments in one of the three forms a section receives
InSomeSection(text) ==
    \E n \in 1..Len(Segments(sections)) :
        Segments(sections)[n] \in {text, "VERSE: " \o text, "MEANING: " \o text}

(***************************************************************************)
(* C24: rule-chain precedence.  Every element that reaches the rule chain  *)
(* is classified by the first matching rule in the order verse (verse      *)
(* marker present or length > 50), meaning (meaning marker present),       *)
(* paragraph (length > 30), else discarded.  So its text is in verses iff  *)
(* the verse rule matches, in meanings iff the meaning rule matches and    *)
(* the verse rule does not, in paragraphs iff only the paragraph rule      *)
(* matches; a text with a meaning marker that is longer than 50 characters *)
(* or carries a verse marker is in verses only, and a text on which no     *)
(* rule matches is in no list and in no section.                           *)
(***************************************************************************)
C24_FirstMatchingRule ==
    \A k \in Positions :
        LET text == Text[document[k]]
            rule == Rules[ruleset][document[k]]
        IN  rule.chained =>
              /\ In(text, verses) <=> rule.verse
              /\ In(text, meanings) <=> (~rule.verse /\ rule.meaning)
              /\ In(text, paragraphs) <=> (~rule.verse /\ ~rule.meaning /\ rule.paragraph)
              /\ (~rule.verse /\ ~rule.meaning /\ ~rule.paragraph) => ~InSomeSection(text)

\* under a heading: a long text with a meaning marker, a short text with a
\* meaning marker and a verse marker, and a text on which no rule matches
C24_Witness ==
    /\ Reported
    /\ ruleset = "extended"
    /\ document = << [name |-> "h2", text |-> "Introduction"],
                     [name |-> "p",  text |-> LongGloss],
                     [name |-> "p",  text |-> GlyphGloss],
                     [name |-> "p",  text |-> Note] >>
    /\ verses = <<LongGloss, GlyphGloss>>
    /\ meanings = <<>>
    /\ paragraphs = <<>>
    /\ sections = << [name |-> "Introduction",
                      items |-> <<"VERSE: " \o LongGloss, "VERSE: " \o GlyphGloss>>] >>

\* the loop iterates e in this step
Iterates(e) == at = "loop" /\ document' = Append(document, e)

(***************************************************************************)
(* C25: every heading element with non-empty text becomes the current      *)
(* section and is added to none of verses, meanings and paragraphs; if its *)
(* text is not yet a key of sections an empty list is created for it at    *)
(* the end, and if it is one, sections stays as it is (the list is neither *)
(* cleared nor moved).                                                     *)
(* Violated: the extended and the specialized classifier skip a heading    *)
(* whose text is shorter than 10 characters before they look at its tag.   *)
(***************************************************************************)
C25_HeadingBecomesSection ==
    [][\A e \in Candidates :
          (Iterates(e) /\ e.name \in Headings /\ ~Blank(e.text)) =>
              /\ current_section' = Text[e]
              /\ UNCHANGED <<verses, meanings, paragraphs>>
              /\ sections' = IF Text[e] \in Keys(sections) THEN sections
                             ELSE Append(sections, [name |-> Text[e], items |-> <<>>])]_vars

\* a heading whose normalized text is shorter than the minimum
ShortHeading(e) == e.name \in Headings /\ ~Blank(e.text) /\ Len(Text[e]) < MinTextLen

\* the sections other than the one named k are as they were
OnlySectionChanges(k) ==
    /\ Len(sections') = Len(sections)
    /\ \A i \in 1..Len(sections) : sections[i].name # k => sections'[i] = sections[i]

(***************************************************************************)
(* C26: in the extended ruleset (and in the specialized one) the minimum   *)
(* of 10 characters is applied before the heading check.  A heading whose  *)
(* normalized text is shorter than 10 characters changes neither the       *)
(* current section nor sections nor any list, and an element that is not a *)
(* heading leaves the current section alone and adds to no section other   *)
(* than the current one: the elements after a short heading go to the      *)
(* section that was active before it, or to none.                          *)
(***************************************************************************)
C26_ShortHeadingIsSkipped ==
    [][\A e \in Candidates :
          (ruleset \in {"extended", "specialized"} /\ Iterates(e)) =>
              /\ ShortHeading(e) =>
                    UNCHANGED <<current_section, sections, verses, meanings, paragraphs>>
              /\ e.name \notin Headings =>
                    /\ UNCHANGED current_section
                    /\ OnlySectionChanges(current_section)]_vars

\* the heading "Intro" after the heading "Introduction": the paragraph that
\* follows is attributed to "Introduction"
C26_Witness ==
    /\ ruleset = "extended"
    /\ document = << [name |-> "h2", text |-> "Introduction"],
                     [name |-> "h1", text |-> "Intro"],
                     [name |-> "p",  text |-> River] >>
    /\ current_section = "Introduction"
    /\ sections = << [name |-> "Introduction", items |-> <<River>>] >>

\* the first loop of the specialized classifier appended a verse: an element
\* of its tag set reached the rule chain and met the verse rule
PrimaryVerse ==
    \E k \in Positions :
        Rules["specialized"][document[k]].chained /\ Rules["specialized"][document[k]].verse

\* text is the normalized text of an element that reached the rule chain
\* of the specialized classifier
FromPrimary(text) ==
    \E k \in Positions :
        Rules["specialized"][document[k]].chained /\ Text[document[k]] = text

(***************************************************************************)
(* C27: where the dispatch exists (src/web_scraper) the specialized        *)
(* classifier runs exactly when the page carries the signature; the        *)
(* aggressive second pass runs only in the specialized classifier and only *)
(* if the first loop produced no verse; and when the first loop produced a *)
(* verse, every text of the returned lists and every segment of the        *)
(* returned sections comes from an element of the primary tag set.         *)
(***************************************************************************)
C27_AggressiveOnlyWithoutVerses ==
    /\ signature # None => (ruleset = "specialized" <=> signature = "True")
    /\ aggressive => (ruleset = "specialized" /\ ~PrimaryVerse)
    /\ (Reported /\ ruleset = "specialized" /\ PrimaryVerse) =>
          /\ \A i \in 1..Len(verses) : FromPrimary(verses[i])
          /\ \A i \in 1..Len(meanings) : FromPrimary(meanings[i])
          /\ \A i \in 1..Len(paragraphs) : FromPrimary(paragraphs[i])
          /\ \A n \in 1..Len(Segments(sections)) :
                \E cat \in {"verse", "meaning", "paragraph"}, k \in Positions :
                    /\ Rules["specialized"][document[k]].chained
                    /\ Segments(sections)[n] = Segment("specialized", cat, Text[document[k]])

\* a page with the signature: a verse in a <p> and, in a <pre>, a long text
\* with a glyph that only the aggressive pass would take
C27_Witness ==
    /\ Reported
    /\ signature = "True"
    /\ ruleset = "specialized"
    /\ ~aggressive
    /\ document = << [name |-> "h2",  text |-> "Introduction"],
                     [name |-> "p",   text |-> Glyphs],
                     [name |-> "pre", text |-> Drum] >>
    /\ verses = <<Glyphs>>
    /\ sections = << [name |-> "Introduction", items |-> <<"VERSE: " \o Glyphs>>] >>

\* a page with the signature and no verse in the primary tag set: the
\* aggressive pass ran and took the text of the <pre>
C27_AggressiveRan ==
    /\ Reported
    /\ ruleset = "specialized"
    /\ aggressive
    /\ verses = <<Drum>>

(***************************************************************************)
(* The classifier's loop as a function of the document, to compare what    *)
(* two classifiers make of the same elements.                              *)
(***************************************************************************)
\* the locals after one iteration of the loop on element e, from the locals st
LoopStep(rs, st, e) ==
    LET text == Text[e]
        cat  == Categories[rs][e]
        list == CASE cat = "verse" -> st.verses
                  [] cat = "meaning" -> st.meanings
                  [] OTHER -> st.paragraphs
        new  == cat # "none" /\ ~In(text, list)
    IN  IF e.name \notin TextTags(rs) \/ Skipped(rs, e) THEN st
        ELSE IF e.name \in Headings
        THEN [st EXCEPT !.current_section = text, !.sections = WithSection(st.sections, text)]
        ELSE [current_section |-> st.current_section,
              verses     |-> IF new /\ cat = "verse" THEN Append(st.verses, text) ELSE st.verses,
              meanings   |-> IF new /\ cat = "meaning" THEN Append(st.meanings, text)
                             ELSE st.meanings,
              paragraphs |-> IF new /\ cat = "paragraph" THEN Append(st.paragraphs, text)
                             ELSE st.paragraphs,
              sections   |-> IF Attributed(new, st.sections, st.current_section)
                             THEN WithItem(st.sections, st.current_section, Segment(rs, cat, text))
                             ELSE st.sections]

RECURSIVE Loop(_, _, _)
Loop(rs, doc, st) == IF doc = <<>> THEN st ELSE Loop(rs, Tail(doc), LoopStep(rs, st, Head(doc)))

\* verses, meanings, paragraphs and sections the classifier rs returns for doc
Classified(rs, doc) ==
    LET st    == Loop(rs, doc, [current_section |-> InitialSection(rs), verses |-> <<>>,
                                meanings |-> <<>>, paragraphs |-> <<>>, sections |-> NoSections])
        found == IF RunsAggressive(rs, st.verses)
                 THEN Aggressive(doc, st.verses, st.sections, st.current_section)
                 ELSE [verses |-> st.verses, sections |-> st.sections]
    IN  [verses |-> found.verses, meanings |-> st.meanings, paragraphs |-> st.paragraphs,
         sections |-> found.sections]

\* the four parts of the running classifier's content
Returned4 ==
    [verses |-> verses, meanings |-> meanings, paragraphs |-> paragraphs, sections |-> sections]

\* an element of the document carries a marker only the specialized classifier knows
ExtraMarkers ==
    \E k \in Positions : AnyIn(tandav_chars \ devanagari_chars, Text[document[k]])

(***************************************************************************)
(* C28: for a sequence of elements that carries none of the extra markers  *)
(* and gives the specialized classifier at least one verse in its first    *)
(* loop, the specialized classifier returns the verses, meanings,          *)
(* paragraphs and sections that the generic classifier of the same file    *)
(* returns for the same elements.                                          *)
(* Violated: the two differ in the tags they iterate as well; the generic  *)
(* classifier reads span, pre and blockquote elements, the specialized one *)
(* does not.                                                               *)
(***************************************************************************)
C28_VariantsAgree ==
    (Reported /\ ruleset = "specialized" /\ Rendered /\ PrimaryVerse /\ ~ExtraMarkers) =>
        Returned4 = Classified("extended", document)

(***************************************************************************)
(* Specification HttpSpec: get_page on a scraper without browser and       *)
(* without proxy, so that the HTTP adapter makes every attempt; the retry  *)
(* budget goes beyond the size of the User-Agent pool.                     *)
(***************************************************************************)
MaxHttpRetries == 6

HttpInit ==
    /\ Init
    /\ ~use_playwright
    /\ init_error = None
    /\ ~use_scrapingbee

HttpNext ==
    \/ \E mr \in 1..MaxHttpRetries : GetPage(mr)
    \/ \E c \in Contents, err \in RequestsErrors : RequestsAttempt(c, err)

HttpSpec == HttpInit /\ [][HttpNext]_vars

\* the HTTP adapter has sent the request of an attempt
RequestSent == trace # <<>> /\ LastEvent.adapter = "requests"

(***************************************************************************)
(* C29: the request of HTTP attempt k (counted from 0) carries the         *)
(* User-Agent at index k mod 5 of the pool and, in every other field, the  *)
(* value of the scraper's base headers; the User-Agent is a function of    *)
(* the attempt index alone, and the base headers are never modified.       *)
(***************************************************************************)
C29_UserAgentRotation ==
    /\ headers = BaseHeaders
    /\ RequestSent =>
          /\ sent["User-Agent"] = user_agents[(LastEvent.attempt % 5) + 1]
          /\ DOMAIN sent = DOMAIN BaseHeaders
          /\ \A h \in DOMAIN BaseHeaders \ {"User-Agent"} : sent[h] = BaseHeaders[h]

\* the sixth attempt has gone out with the first User-Agent of the pool again
C29_Witness ==
    /\ RequestSent
    /\ LastEvent.attempt = 5
    /\ sent["User-Agent"] = user_agents[1]
    /\ headers = BaseHeaders

\* the outcome of the latest attempt of this get_page
LastOutcome == History[Len(History)].last

(***************************************************************************)
(* C30: a timeout of the wait for the main-content selector does not end   *)
(* the attempt of the browser adapter.  The same attempt reads the         *)
(* rendered content and applies the acceptance gate to it: it is accepted  *)
(* (and returned) or rejected as the gate decides, no exception is         *)
(* recorded for it, it counts as one attempt and no backoff is slept       *)
(* after it.                                                               *)
(***************************************************************************)
C30_SelectorTimeoutIsNotFatal ==
    selector_timeout =>
        /\ content \in Contents
        /\ error = None
        /\ ~raised
        /\ LastOutcome = (IF AcceptPlaywright(content) THEN "accept" ELSE "reject")
        /\ LastOutcome = "accept" => (pc = "done" /\ result = Soup(content, "playwright"))
        /\ slept = 0
        /\ NumAttempts("playwright") = (IF pc = "playwright" THEN attempt ELSE max_retries)
             \/ LastOutcome = "accept"

\* the selector wait of the second attempt timed out and the page it read
\* was accepted
C30_Witness ==
    /\ selector_timeout
    /\ Returned
    /\ result = Soup(content, "playwright")
    /\ Len(trace) = 2

(***************************************************************************)
(* The content root (lines 622-654, src/src 108-128).  A page is a         *)
(* sequence of containers in document order, inside or outside the body    *)
(* element, each with one child element.  A container is named by the     *)
(* selector that matches it; "section" is matched by no selector.          *)
(***************************************************************************)
MaxRegions == 2

\* content_selectors (web_scraper, lines 626-638) and selectors (src/src, 112-115)
content_selectors(rs) ==
    IF rs = "basic"
    THEN << "article", "main", "div.entry-content", "div.article-content",
            "div.post-content", "div.content", "div.main-content", "div#content" >>
    ELSE << "article", "main", "div.entry-content", "div.article-content",
            "div.post-content", "div.content", "div.main-content", "div#content",
            "div.post", "div.entry", "div.page-content" >>

Containers == {"article", "main", "div.content", "div.post", "section"}

Regions ==
    [kind : Containers, in_body : BOOLEAN,
     child : {[name |-> "p", text |-> River], [name |-> "p", text |-> Pilgrims]}]

RECURSIVE SeqsUpTo(_, _)
SeqsUpTo(S, n) ==
    IF n = 0 THEN {<<>>}
    ELSE SeqsUpTo(S, n - 1) \cup {Append(q, x) : q \in SeqsUpTo(S, n - 1), x \in S}

\* no parsed page is modelled
NoPage == [tree |-> None]

\* main_content is None
NoRoot == [found |-> None]

\* soup.select_one(selector): the position of the first container in
\* document order that the selector matches, 0 for None
select_one(pg, selector) ==
    IF \E k \in 1..Len(pg.regions) : pg.regions[k].kind = selector
    THEN CHOOSE k \in 1..Len(pg.regions) :
            /\ pg.regions[k].kind = selector
            /\ \A j \in 1..(k - 1) : pg.regions[j].kind # selector
    ELSE 0

\* a search that takes the first container of the page that any selector matches
RECURSIVE RootFrom_DocumentOrder(_, _, _)
RootFrom_DocumentOrder(rs, pg, i) ==
    LET sel == content_selectors(rs)
        hit(k) == \E n \in 1..Len(sel) : sel[n] = pg.regions[k].kind
    IN  IF \E k \in 1..Len(pg.regions) : hit(k)
        THEN LET k == CHOOSE k \in 1..Len(pg.regions) : hit(k) /\ \A j \in 1..(k - 1) : ~hit(j)
             IN  [found |-> pg.regions[k].kind, at |-> k]
        ELSE IF pg.body THEN [found |-> "body"] ELSE NoRoot

\* the for loop over the selectors from the i-th on (lines 641-645), then
\* the fallback to soup.find('body') (lines 648-650)
RECURSIVE RootFrom(_, _, _)
RootFrom(rs, pg, i) ==
    IF i > Len(content_selectors(rs))
    THEN IF pg.body THEN [found |-> "body"] ELSE NoRoot
    ELSE IF select_one(pg, content_selectors(rs)[i]) # 0
         THEN [found |-> content_selectors(rs)[i], at |-> select_one(pg, content_selectors(rs)[i])]
         ELSE RootFrom(rs, pg, i + 1)

\* what find_all yields for a container of the page seen from the body: the
\* container itself if it is a div (its text is its child's text), then its child
RECURSIVE InBody(_)
InBody(regions) ==
    IF regions = <<>> THEN <<>>
    ELSE LET r == Head(regions)
         IN  (IF ~r.in_body THEN <<>>
              ELSE (IF r.kind \in {"div.content", "div.post"}
                    THEN <<[name |-> "div", text |-> r.child.text]>> ELSE <<>>)
                   \o <<r.child>>)
             \o InBody(Tail(regions))

\* main_content.find_all([...]) before the filter on tag names: the
\* descendants of the root in document order
Descendants(pg, root) ==
    IF root.found = None THEN <<>>
    ELSE IF root.found = "body" THEN InBody(pg.regions)
    ELSE <<pg.regions[root.at].child>>

\* the pages: a body element or none, containers inside the body only if
\* there is one
Pages ==
    {pg \in [tree : {"html"}, body : BOOLEAN, regions : SeqsUpTo(Regions, MaxRegions)] :
        /\ \A k \in 1..Len(pg.regions) : pg.regions[k].in_body => pg.body
        /\ Len(InBody(pg.regions)) <= MaxElements}

\* extract_article_content of a generic classifier up to the loop: the
\* content root of the page pg
LocateRoot(pg) ==
    /\ at = "loop"
    /\ ruleset \in {"basic", "extended"}
    /\ soup = NoPage
    /\ soup' = pg
    /\ main_content' = RootFrom(ruleset, pg, 1)
    /\ UNCHANGED <<signature, ruleset, at, document, current_section, verses, meanings,
                   paragraphs, sections, aggressive, results, fetch, lifecycle, session>>

\* one iteration of the loop over the elements of the root
ClassifyFound ==
    LET elements == Descendants(soup, main_content)
    IN  /\ soup # NoPage
        /\ Len(document) < Len(elements)
        /\ ClassifyElement(elements[Len(document) + 1])

\* the loop is over (or main_content is None): full_text and the report
ReturnFound ==
    /\ soup # NoPage
    /\ Len(document) = Len(Descendants(soup, main_content))
    /\ ReturnReport

RootNext ==
    \/ \E program \in {"src", "web_scraper"}, fetched \in Fetched, written \in BOOLEAN :
          ScrapeExample(program, FALSE, fetched, written)
    \/ soup = NoPage /\ \E pg \in Pages : LocateRoot(pg)
    \/ ClassifyFound
    \/ ReturnFound

RootSpec == ScrapeInit /\ [][RootNext]_vars

\* the i-th selector of the running classifier matches a container of the page
Hit(i) == \E k \in 1..Len(soup.regions) : soup.regions[k].kind = content_selectors(ruleset)[i]

\* the texts of the three lists
Listed == {verses[i] : i \in 1..Len(verses)} \cup {meanings[i] : i \in 1..Len(meanings)}
              \cup {paragraphs[i] : i \in 1..Len(paragraphs)}

(***************************************************************************)
(* C31: the content root is the element matched by the first selector, in  *)
(* list order, that matches anything (the first such element of the page); *)
(* if no selector matches it is the body element; only descendants of the  *)
(* chosen root are classified; and when neither a selector nor a body      *)
(* matches, verses, meanings, paragraphs and sections are empty and        *)
(* full_text is the empty string.                                          *)
(***************************************************************************)
C31_ContentRoot ==
    soup # NoPage =>
        LET sel == content_selectors(ruleset)
            inRoot(k) == IF main_content.found = "body" THEN soup.regions[k].in_body
                         ELSE main_content.found # None /\ main_content.at = k
        IN  /\ \A i \in 1..Len(sel) :
                  (Hit(i) /\ \A j \in 1..(i - 1) : ~Hit(j)) =>
                      /\ main_content.found = sel[i]
                      /\ soup.regions[main_content.at].kind = sel[i]
                      /\ \A k \in 1..(main_content.at - 1) : soup.regions[k].kind # sel[i]
            /\ (\A i \in 1..Len(sel) : ~Hit(i)) =>
                  main_content = (IF soup.body THEN [found |-> "body"] ELSE NoRoot)
            /\ \A text \in Listed :
                  \E k \in 1..Len(soup.regions) : inRoot(k) /\ Text[soup.regions[k].child] = text
            /\ Reported =>
                  \A k \in 1..Len(soup.regions) :
                      inRoot(k) => Text[soup.regions[k].child] \in Listed
            /\ (Reported /\ main_content = NoRoot) =>
                  /\ verses = <<>> /\ meanings = <<>> /\ paragraphs = <<>> /\ sections = <<>>
                  /\ results[1].full_text = ""

\* a main element before an article element: the article is the root, and
\* only its paragraph is in the report
C31_Witness ==
    /\ Reported
    /\ soup # NoPage
    /\ Len(soup.regions) = 2
    /\ soup.regions[1].kind = "main" /\ soup.regions[1].child.text = River
    /\ soup.regions[2].kind = "article" /\ soup.regions[2].child.text = Pilgrims
    /\ main_content = [found |-> "article", at |-> 2]
    /\ paragraphs = <<Pilgrims>>

\* a page without containers that a selector matches and without a body
C31_NoRoot ==
    /\ Reported
    /\ soup # NoPage
    /\ soup.regions # <<>>
    /\ main_content = NoRoot
    /\ results[1].full_text = ""

(***************************************************************************)
(* Specification ListSpec: scrape_example on pages made of the candidates  *)
(* for the lists and the sections.                                         *)
(***************************************************************************)
ListNext ==
    \/ \E program \in {"src", "web_scraper"}, matches \in BOOLEAN, fetched \in Fetched,
          written \in BOOLEAN : ScrapeExample(program, matches, fetched, written)
    \/ \E e \in ListElements : ClassifyElement(e)
    \/ ClassifierRaises
    \/ ReturnReport

ListSpec == ScrapeInit /\ [][ListNext]_vars

\* the entries of a list
Entries(list) == {list[i] : i \in 1..Len(list)}

(***************************************************************************)
(* C33: the three category lists are pairwise disjoint, during the loop    *)
(* and after the specialized classifier's aggressive pass: no text is in   *)
(* two of verses, meanings, paragraphs.                                    *)
(***************************************************************************)
C33_ListsDisjoint ==
    /\ Entries(verses) \cap Entries(meanings) = {}
    /\ Entries(verses) \cap Entries(paragraphs) = {}
    /\ Entries(meanings) \cap Entries(paragraphs) = {}

\* the first loop of the specialized classifier found a meaning and a
\* paragraph, and the aggressive pass a verse
C33_Witness ==
    /\ Reported
    /\ ruleset = "specialized"
    /\ aggressive
    /\ verses = <<Text[[name |-> "span", text |-> Glyphs]]>>
    /\ meanings = <<Gloss>>
    /\ paragraphs = <<River>>

\* for each candidate text: its length and whether it carries a verse marker
\* of the ruleset or a meaning marker; evaluated once
Marks ==
    [rs \in Rulesets |-> [t \in {Text[e] : e \in Candidates} |->
        [len     |-> Len(t),
         verse   |-> AnyIn(VerseMarkers(rs), t),
         meaning |-> AnyIn(meaning_words, lower(t))]]]

(***************************************************************************)
(* C34: every entry of paragraphs is 31 to 50 characters long and carries  *)
(* neither a verse marker nor a meaning marker; every entry of meanings is *)
(* at most 50 characters long and carries no verse marker; in the extended *)
(* ruleset every entry of every list is at least 10 characters long.       *)
(***************************************************************************)
C34_EntryLengthsAndMarkers ==
    ruleset # None =>
        /\ \A t \in Entries(paragraphs) :
              /\ Marks[ruleset][t].len >= ParagraphLen + 1
              /\ Marks[ruleset][t].len <= VerseLen
              /\ ~Marks[ruleset][t].verse
              /\ ~Marks[ruleset][t].meaning
        /\ \A t \in Entries(meanings) :
              /\ Marks[ruleset][t].len <= VerseLen
              /\ ~Marks[ruleset][t].verse
        /\ ruleset = "extended" =>
              \A t \in Entries(verses) \cup Entries(meanings) \cup Entries(paragraphs) :
                  Marks[ruleset][t].len >= MinTextLen

\* an extended run over a verse of nine characters, a long verse, a meaning
\* and a paragraph: the short verse is in no list
C34_Witness ==
    /\ Reported
    /\ ruleset = "extended"
    /\ document = << [name |-> "p", text |-> "@ 123 456"],
                     [name |-> "p", text |-> Glyphs],
                     [name |-> "p", text |-> Gloss],
                     [name |-> "p", text |-> River] >>
    /\ verses = <<Glyphs>>
    /\ meanings = <<Gloss>>
    /\ paragraphs = <<River>>

\* the element at position k is a heading the loop accepts
AcceptedHeading(k) ==
    /\ document[k].name \in Headings
    /\ ~Blank(document[k].text)
    /\ ruleset = "basic" \/ Len(Text[document[k]]) >= MinTextLen

\* the position of the last accepted heading before position k, 0 if none
HeadingBefore(k) ==
    LET hs == {j \in 1..(k - 1) : AcceptedHeading(j)}
    IN  IF hs = {} THEN 0 ELSE CHOOSE j \in hs : \A i \in hs : i <= j

\* the position at which a listed text is first read: its first element
\* that reaches the rule chain, or, for a verse that only the aggressive
\* pass finds, the end of the document
FirstRead(text) ==
    LET ks == {k \in Positions : Text[document[k]] = text /\ Rules[ruleset][document[k]].chained}
    IN  IF ks = {} THEN Len(document) + 1 ELSE CHOOSE k \in ks : \A i \in ks : k <= i

\* how often x occurs in seq
Count(seq, x) == Cardinality({n \in 1..Len(seq) : seq[n] = x})

ListedAs == {"verse", "meaning", "paragraph"}

C35_AggressiveEntry ==
    /\ Reported
    /\ aggressive
    /\ document = << [name |-> "span", text |-> Glyphs],
                     [name |-> "h1",   text |-> "Shiva Tandav Stotram"] >>
    /\ sections = << [name |-> "Shiva Tandav Stotram", items |-> <<"VERSE: " \o Glyphs>>] >>

(***************************************************************************)
(* C36: the classifier never enters its default section name ('General',   *)
(* 'Shiva Tandav Stotram' in the specialized classifier) into sections by  *)
(* itself.  The name is a key only if the loop accepted a heading with     *)
(* exactly that text, and a text first read before the first accepted      *)
(* heading has its segment in no section.                                  *)
(***************************************************************************)
C36_DefaultSectionNotEntered ==
    ruleset # None =>
        /\ InitialSection(ruleset) \in Keys(sections) =>
              \E k \in Positions :
                  AcceptedHeading(k) /\ Text[document[k]] = InitialSection(ruleset)
        /\ \A cat \in ListedAs : \A t \in Entries(ListOf(cat)) :
              HeadingBefore(FirstRead(t)) = 0 => ~InSomeSection(t)

\* a paragraph before the first heading, a heading with the default name of
\* the specialized classifier, a verse under it and the paragraph once more
C36_Witness ==
    /\ Reported
    /\ ruleset = "specialized"
    /\ ~aggressive
    /\ document = << [name |-> "p",  text |-> River],
                     [name |-> "h1", text |-> "Shiva Tandav Stotram"],
                     [name |-> "p",  text |-> Glyphs],
                     [name |-> "p",  text |-> River] >>
    /\ paragraphs = <<River>>
    /\ sections = << [name |-> "Shiva Tandav Stotram", items |-> <<"VERSE: " \o Glyphs>>] >>

\* the generic classifier of src/src/scraper.py met a heading 'General'
C36_GeneralHeading ==
    /\ Reported
    /\ ruleset = "basic"
    /\ document = << [name |-> "p",  text |-> River],
                     [name |-> "h2", text |-> "General"],
                     [name |-> "p",  text |-> Gloss] >>
    /\ sections = << [name |-> "General", items |-> <<Gloss>>] >>

(***************************************************************************)
(* The session-based scraper of src/src/scraper.py: get_page(url, use_js)  *)
(* fetches with self.session.get, renders the page if use_js, and calls    *)
(* itself once more with use_js=False when the try body raised or the page *)
(* is short.  What the environment can do to one call: nothing, a          *)
(* transport error of the GET, a failure of the rendering, an error raised *)
(* by the parser.                                                          *)
(***************************************************************************)
SessionErrors == {"none", "transport", "render", "parse"}

\* a rendering without a handler of its own
RenderCatches_Nothing(exc) == FALSE

\* the try around response.html.render: except Exception (line 69)
RenderCatches(exc) == TRUE

\* except Exception (line 85)
SessionCatches(exc) == TRUE

\* The try body of one get_page call, lines 57-83: "soup" returns the parsed
\* page, "short" is the branch of line 77, anything else is the exception
\* raised.  A rendering failure that its own handler catches is logged and
\* the body goes on with the page as fetched.
SessionBody(js, c, err) ==
    IF err = "transport" THEN "RequestException"
    ELSE IF js /\ err = "render" /\ ~RenderCatches("TimeoutError") THEN "TimeoutError"
    ELSE IF err = "parse" THEN "ParserError"
    ELSE IF c.len < MinContentLen THEN "short"
    ELSE "soup"

\* get_page(url, use_js=js) is called
SessionGetPage(js) ==
    /\ session_pc = "idle"
    /\ use_js' = js
    /\ session_pc' = "call"
    /\ UNCHANGED <<gets, session_result, session_raised, fetch, extraction, lifecycle>>

\* one call of get_page, lines 57-89: the try body, and the handler of line
\* 85.  The call made at line 80 or 88 is the next step.
SessionCall(c, err) ==
    LET b      == SessionBody(use_js, c, err)
        \* response.html.render: not reached, failed, or done
        render == IF ~use_js \/ err = "transport" THEN "none"
                  ELSE IF err = "render" THEN "failed"
                  ELSE "ok"
        threw  == b \notin {"soup", "short"}
        escape == threw /\ ~SessionCatches(b)
        retry  == (b = "short" \/ threw) /\ ~escape /\ use_js
    IN  /\ session_pc = "call"
        /\ err = "render" => use_js
        /\ gets' = Append(gets, [use_js    |-> use_js,
                                 page      |-> IF err = "transport" THEN NoContent ELSE c,
                                 rendering |-> render,
                                 outcome   |-> b])
        \* line 83 returns the parsed response.html.html, which is the rendered
        \* page only if the rendering was done
        /\ session_result' = IF b = "soup"
                             THEN [source |-> "session", content |-> c, rendered |-> render = "ok"]
                             ELSE NoDocument
        /\ session_raised' = escape
        /\ session_pc' = IF retry THEN "call" ELSE "done"
        /\ use_js' = IF retry THEN FALSE ELSE use_js
        /\ UNCHANGED <<fetch, extraction, lifecycle>>

\* the scraper of src/web_scraper is not used
SessionInit == ScrapeInit

SessionNext ==
    \/ \E js \in BOOLEAN : SessionGetPage(js)
    \/ \E c \in Contents, err \in SessionErrors : SessionCall(c, err)

\* get_page is sequential code and its blocking calls end: the GET has
\* timeout=30 (line 62), the rendering timeout=20 (line 68)
SessionSpec == SessionInit /\ [][SessionNext]_vars /\ WF_vars(SessionNext)

SessionDone == session_pc = "done"

\* the fetch of record g failed: the call raised, or its page is short
FetchFailed(g) == g.outcome # "soup"

(***************************************************************************)
(* C37: in the session-based scraper get_page makes at most two fetches,   *)
(* the first with rendering and the second without, and never raises: it   *)
(* ends, with the document of its last fetch or with None.  A call whose   *)
(* rendering alone failed returns the page as fetched.  A call with        *)
(* use_js=True that raised or got a page shorter than 1000 characters is   *)
(* followed by exactly one call with use_js=False, and a call with         *)
(* use_js=False is the last one.                                           *)
(***************************************************************************)
C37_SessionGetPage ==
    /\ [](/\ Len(gets) <= 2
          /\ Len(gets) = 2 => gets[1].use_js /\ ~gets[2].use_js
          /\ ~session_raised
          /\ \A i \in 1..Len(gets) :
                /\ (gets[i].rendering = "failed" /\ gets[i].page.len >= MinContentLen) =>
                      /\ i = Len(gets)
                      /\ SessionDone
                      /\ session_result = [source |-> "session", content |-> gets[i].page,
                                           rendered |-> FALSE]
                /\ (gets[i].use_js /\ FetchFailed(gets[i]) /\ SessionDone) =>
                      Len(gets) = i + 1 /\ ~gets[i + 1].use_js
                /\ ~gets[i].use_js => i = Len(gets) /\ SessionDone
          /\ SessionDone =>
                /\ gets # <<>>
                /\ FetchFailed(gets[Len(gets)]) <=> session_result = NoDocument
                /\ ~FetchFailed(gets[Len(gets)]) =>
                      /\ session_result.source = "session"
                      /\ session_result.content = gets[Len(gets)].page)
    /\ [](session_pc = "call" => <>SessionDone)

\* the rendering of a page of 1000 characters failed: the page is returned
\* as fetched, after one fetch
C37_Witness ==
    /\ SessionDone
    /\ Len(gets) = 1
    /\ gets[1].use_js
    /\ gets[1].rendering = "failed"
    /\ gets[1].page.len = MinContentLen
    /\ session_result # NoDocument
    /\ ~session_result.rendered

\* a short page with rendering, then a transport error without: None after
\* two fetches
C37_TwoFetches ==
    /\ SessionDone
    /\ Len(gets) = 2
    /\ gets[1].outcome = "short"
    /\ gets[2].outcome = "RequestException"
    /\ session_result = NoDocument

(***************************************************************************)
(* get_page under the scheduling of the code.  get_page is one sequential  *)
(* call: each attempt ends, because goto (timeout=120000), the selector    *)
(* wait (timeout=30000), the GET (timeout=30), the proxy call (timeout=45) *)
(* and every sleep are finite, and the for loops go on to their next       *)
(* iteration.  So a step that can be taken is taken: weak fairness of the  *)
(* next-state relation.                                                    *)
(***************************************************************************)
\* The scraper is one whose browser set-up, if any, went through: after a
\* failed set-up use_playwright is False and get_page runs as it does for a
\* scraper built with use_playwright=False.
FairInit == Init /\ init_error = None

FairSpec == FairInit /\ [][Next]_vars /\ WF_vars(Next)

\* get_page has been called and is not over
Running == pc \in Adapters

\* the fetch attempts of this get_page, all adapters together
TotalAttempts == NumAttempts("playwright") + NumAttempts("requests") + NumAttempts("scrapingbee")

\* every attempt of this get_page ended in accept, reject or a transport error:
\* an exception that left get_page is that of its last attempt
OnlyListedOutcomes == raised => error \in TransportExceptions

(***************************************************************************)
(* C32: get_page always terminates.  For every max_retries and every       *)
(* sequence of attempt outcomes, the fetch attempts of all adapters        *)
(* together never exceed 4 * max_retries (get_page makes at most four      *)
(* adapter calls: the browser adapter, the HTTP adapter from the browser   *)
(* adapter's except branch, the HTTP adapter again, the proxy adapter); a  *)
(* call whose attempts end in accept, reject or a transport error only     *)
(* does not raise, and returns a document if its last attempt was accepted *)
(* and None otherwise; and a call that has started is eventually over.     *)
(***************************************************************************)
C32_GetPageTerminates ==
    /\ [](TotalAttempts <= 4 * max_retries)
    /\ []((Done /\ OnlyListedOutcomes) =>
            /\ ~raised
            /\ (result # NoDocument) = (LastEvent.outcome = "accept"))
    /\ [](Running => <>Done)

\* the longest call: the browser adapter, the HTTP adapter twice and the
\* proxy adapter each make max_retries attempts, and get_page returns None
C32_Witness ==
    /\ Done
    /\ ~raised
    /\ result = NoDocument
    /\ max_retries > 1
    /\ TotalAttempts = 4 * max_retries

(***************************************************************************)
(* The life of the scraper object: the browser set-up of __init__ (lines   *)
(* 70-158), the dispatch of get_page and the teardown __del__ (lines       *)
(* 888-900).  Specification LifeSpec starts where __init__ enters the      *)
(* browser set-up (line 76).                                               *)
(***************************************************************************)
LifeInit ==
    /\ use_playwright \in BOOLEAN
    /\ use_scrapingbee \in BOOLEAN
    /\ scrapingbee_api_key \in {None, "", "key"}
    /\ page = None
    /\ playwright = None
    /\ browser = None
    /\ context = None
    /\ life = IF use_playwright THEN "init" ELSE "ready"
    /\ step = IF use_playwright THEN 1 ELSE 0
    /\ init_error = None
    /\ open = {}
    /\ closing = <<>>
    /\ cleanup_warning = None
    /\ del_raised = FALSE
    /\ NoFetch
    /\ NoScrape
    /\ NoSession

\* the attribute self.<r> after the step named s succeeded
Assigned(r, s, old) == IF AcquiredBy(r) = s THEN r ELSE old

\* one step of the try body of __init__ (lines 77-154): it succeeds, or it
\* raises and the except branch (lines 156-158) runs
InitStep(ok) ==
    LET s == InitSteps[step]
    IN  /\ life = "init"
        /\ IF ok
           THEN /\ playwright' = Assigned("playwright", s, playwright)
                /\ browser' = Assigned("browser", s, browser)
                /\ context' = Assigned("context", s, context)
                /\ page' = Assigned("page", s, page)
                /\ open' = open \cup {r \in {"playwright", "browser", "context", "page"} :
                                         AcquiredBy(r) = s}
                /\ step' = step + 1
                /\ life' = IF step = Len(InitSteps) THEN "ready" ELSE "init"
                /\ UNCHANGED <<use_playwright, init_error>>
           ELSE /\ use_playwright' = FALSE
                /\ init_error' = s
                /\ step' = 0
                /\ life' = "ready"
                /\ UNCHANGED <<playwright, browser, context, page, open>>
        /\ UNCHANGED <<use_scrapingbee, scrapingbee_api_key, max_retries, pc, caller, attempt,
                       slept, content, error, result, raised, trace, calls,
                       selector_timeout, headers, sent, extraction, session, closing, cleanup_warning,
                       del_raised>>

\* the resources __del__ releases, in the order of lines 891-898: those
\* whose attribute is truthy
ReleaseOrder == <<"page", "context", "browser", "playwright">>

Handle(r) ==
    CASE r = "page"       -> page
      [] r = "context"    -> context
      [] r = "browser"    -> browser
      [] r = "playwright" -> playwright

Held == SelectSeq(ReleaseOrder, LAMBDA r : Handle(r) # None)

\* position of r in the releases of this teardown
HeldIndex(r) == CHOOSE i \in 1..Len(Held) : Held[i] = r

\* __del__ (lines 888-900): the four releases run inside one try; the release
\* of failAt raises exc ("none": no release raises).  The object is collected
\* when no method is running on it.
Del(failAt, exc) ==
    LET last == IF failAt = "none" THEN Len(Held) ELSE HeldIndex(failAt)
        called == SubSeq(Held, 1, last)
        released == {called[i] : i \in 1..Len(called)} \ {failAt}
    IN  /\ life = "ready"
        /\ pc \in {"idle", "done"}
        /\ failAt = "none" \/ \E i \in 1..Len(Held) : Held[i] = failAt
        /\ closing' = called
        /\ open' = open \ released
        /\ cleanup_warning' = IF failAt # "none" /\ DelCatches(exc) THEN exc ELSE None
        /\ del_raised' = (failAt # "none" /\ ~DelCatches(exc))
        /\ life' = "deleted"
        /\ UNCHANGED <<fetch, extraction, session, playwright, browser, context, step, init_error>>

LifeNext ==
    \/ \E ok \in BOOLEAN : InitStep(ok)
    \/ \E mr \in 1..MaxRetriesBound : life = "ready" /\ GetPage(mr)
    \/ \E failAt \in {"none", "page", "context", "browser", "playwright"},
          exc \in ReleaseExceptions : Del(failAt, exc)

LifeSpec == LifeInit /\ [][LifeNext]_vars

\* __init__ is over and its browser set-up raised
InitFailed == life = "ready" /\ init_error # None

(***************************************************************************)
(* C21: when the browser set-up of __init__ fails at any step, the browser *)
(* adapter is disabled (get_page does not run it) and no partial state     *)
(* remains: none of the playwright, browser, context and page handles      *)
(* acquired before the failure is still held by the scraper.               *)
(* Violated: the except branch only clears use_playwright; a failure of    *)
(* launch leaves self.playwright set and the driver running.               *)
(***************************************************************************)
C21_FailedInitLeavesNothing ==
    InitFailed =>
        /\ pc # "playwright"
        /\ playwright = None /\ browser = None /\ context = None /\ page = None
        /\ open = {}

\* the resources that were acquired by the time __del__ ran
Acquired == {r \in {"page", "context", "browser", "playwright"} : Handle(r) # None}

Called == {closing[i] : i \in 1..Len(closing)}

(***************************************************************************)
(* C22: teardown releases every browser resource that was acquired (page,  *)
(* context, browser, playwright driver) on all exit paths, including when  *)
(* the release of one of them fails.                                       *)
(* Violated: the four releases share one try, so a release that raises     *)
(* skips the releases after it.                                            *)
(***************************************************************************)
C22_TeardownReleasesAll ==
    life = "deleted" => \A r \in Acquired : r \in Called

\* the release that raised during teardown, if one did
ReleaseFailed == life = "deleted" /\ closing # <<>> /\ closing[Len(closing)] \in open

(***************************************************************************)
(* C23: a failure while releasing any resource during teardown is logged   *)
(* and swallowed: teardown never raises, whichever release step fails.     *)
(***************************************************************************)
C23_TeardownNeverRaises ==
    life = "deleted" =>
        /\ ~del_raised
        /\ ReleaseFailed => cleanup_warning \in ReleaseExceptions
        /\ cleanup_warning # None => ReleaseFailed

\* the release of the browser raised a plain driver error and teardown is over
C23_Witness ==
    /\ ReleaseFailed
    /\ closing[Len(closing)] = "browser"
    /\ cleanup_warning = "PlaywrightError"
    /\ ~del_raised
====
